---- MODULE Spec2Model ----
(***************************************************************************)
(* Model of the description generator of dbt_yaml_generator                *)
(* (src/utils/description_generator.py).                                   *)
(*                                                                         *)
(* Python strings are modelled as sequences of one-character strings, so   *)
(* that substring tests, regular-expression searches, replacements and     *)
(* formatting are computed character by character as the code does.        *)
(* Python floats are modelled as integers counting thousandths (1000 is    *)
(* 1.0); the sample values are finite numbers whose third decimal is never *)
(* an inexact tie, so that '.2f' formatting is decided by the decimal      *)
(* digits alone.                                                           *)
(***************************************************************************)
EXTENDS Integers, Sequences, FiniteSets, TLC

VARIABLES
    op,                 \* the method under study
    pc,                 \* "start" before the call, "done" once it returned
    column_name,        \* generate_column_description: column_name
    data_type,          \* generate_column_description: data_type
    sample_data,        \* the sample handed to _analyze_sample_data
    analysis,           \* the dict returned by _analyze_sample_data
    nlp_calls,          \* number of times self.nlp(...) was invoked
    description,        \* the string returned by generate_column_description
    cleaned,            \* the string returned by _clean_column_name
    table_name,         \* generate_table_description: table_name
    columns,            \* generate_table_description: columns (their names)
    important_list,     \* generate_table_description: important_columns
    details_list,       \* generate_table_description: details
    table_description,  \* the string returned by generate_table_description
    query,              \* get_sample_data: "error" if execute/fetchall raises
    rows,               \* get_sample_data: what cursor.fetchall() returns
    conn,               \* SnowflakeConnector.conn
    close_calls,        \* number of times main called connector.close()
    exit_code,          \* <<>> until main returns, then <<its return value>>
    written,            \* main: the output file was opened for writing
    tables,             \* main: len(tables)
    processed,          \* generate_model_yaml: tables already appended
    pending,            \* main: how the inner try block is being left
    error,              \* main: the step that raised, "none" if none did
    ai_table,           \* what SELECT AI_DESCRIBE_TABLE yields
    table_comment,      \* what the COMMENT query on the table yields
    ai_columns,         \* what SELECT AI_DESCRIBE_COLUMNS yields
    column_comments,    \* what the comment query on the columns yields
    table_columns,      \* what get_columns returns for the table
    sampled,            \* the columns get_sample_data was called for, in order
    table_model         \* generate_model_yaml: table_model

vars == <<op, pc, column_name, data_type, sample_data, analysis, nlp_calls,
          description, cleaned, table_name, columns, important_list,
          details_list, table_description, query, rows, conn, close_calls,
          exit_code, written, tables, processed, pending, error, ai_table,
          table_comment, ai_columns, column_comments, table_columns, sampled,
          table_model>>

\* the state of DescriptionGenerator's methods
generatorVars ==
    <<column_name, data_type, sample_data, analysis, nlp_calls, description,
      cleaned, table_name, columns, important_list, details_list,
      table_description>>

\* the description sources of a table and what is built from them
sourceVars ==
    <<ai_table, table_comment, ai_columns, column_comments, table_columns,
      sampled, table_model>>

\* the state of the connector and of main
pipelineVars ==
    <<query, rows, conn, close_calls, exit_code, written, tables, processed,
      pending, error, sourceVars>>

----------------------------------------------------------------------------
(* Python str primitives over character sequences                          *)

UpperAlpha == <<"A", "B", "C", "D", "E", "F", "G", "H", "I", "J", "K", "L", "M", "N", "O", "P", "Q", "R", "S", "T", "U", "V", "W", "X", "Y", "Z">>

LowerAlpha == <<"a", "b", "c", "d", "e", "f", "g", "h", "i", "j", "k", "l", "m", "n", "o", "p", "q", "r", "s", "t", "u", "v", "w", "x", "y", "z">>

Digits == <<"0", "1", "2", "3", "4", "5", "6", "7", "8", "9">>

\* str.lower() on one character
LowerChar(c) ==
    IF \E i \in 1..26 : UpperAlpha[i] = c
    THEN LowerAlpha[CHOOSE i \in 1..26 : UpperAlpha[i] = c]
    ELSE c

\* str.upper() on one character
UpperChar(c) ==
    IF \E i \in 1..26 : LowerAlpha[i] = c
    THEN UpperAlpha[CHOOSE i \in 1..26 : LowerAlpha[i] = c]
    ELSE c

\* str.lower()
lower(s) == [i \in 1..Len(s) |-> LowerChar(s[i])]

\* s[i:i+len(p)] == p, with i counted from 1
MatchAt(s, p, i) ==
    /\ i >= 1
    /\ i + Len(p) - 1 <= Len(s)
    /\ (p = <<>> \/ s[i] = p[1])
    /\ SubSeq(s, i, i + Len(p) - 1) = p

\* p in s
Contains(s, p) == \E i \in 1..(Len(s) + 1) : MatchAt(s, p, i)

\* re.search('^p', s)
StartsWith(s, p) == MatchAt(s, p, 1)

\* re.search('p$', s)
EndsWith(s, p) == MatchAt(s, p, Len(s) - Len(p) + 1)

RECURSIVE ReplaceFrom(_, _, _, _)
ReplaceFrom(s, old, new, i) ==
    IF i > Len(s) THEN <<>>
    ELSE IF MatchAt(s, old, i) THEN new \o ReplaceFrom(s, old, new, i + Len(old))
    ELSE <<s[i]>> \o ReplaceFrom(s, old, new, i + 1)

\* s.replace(old, new): leftmost non-overlapping occurrences
replace(s, old, new) == ReplaceFrom(s, old, new, 1)

\* the characters the regular-expression class \w matches
IsWordChar(c) ==
    \/ \E i \in 1..26 : c = LowerAlpha[i] \/ c = UpperAlpha[i]
    \/ \E i \in 1..10 : c = Digits[i]
    \/ c = "_"

\* a match of \bword\b at position i of s
WordAt(s, word, i) ==
    /\ MatchAt(s, word, i)
    /\ (i = 1 \/ ~IsWordChar(s[i - 1]))
    /\ (i + Len(word) > Len(s) \/ ~IsWordChar(s[i + Len(word)]))

RECURSIVE SubWordFrom(_, _, _, _)
SubWordFrom(s, word, repl, i) ==
    IF i > Len(s) THEN <<>>
    ELSE IF WordAt(s, word, i) THEN repl \o SubWordFrom(s, word, repl, i + Len(word))
    ELSE <<s[i]>> \o SubWordFrom(s, word, repl, i + 1)

\* a substitution that ignores the word boundaries
re_sub_word_NoBoundary(word, repl, s) == replace(s, word, repl)

\* re.sub(r'\bword\b', repl, s)
re_sub_word(word, repl, s) == SubWordFrom(s, word, repl, 1)

\* the abbreviation table of _clean_column_name, in the order it is applied
Abbreviations == <<
    <<<<"a", "d", "t">>, <<"a", "u", "d", "i", "t">>>>,
    <<<<"a", "n", "b">>, <<"a", "c", "c", "o", "u", "n", "t", " ", "n", "u", "m", "b", "e", "r">>>>,
    <<<<"s", "k">>, <<"s", "u", "r", "r", "o", "g", "a", "t", "e", " ", "k", "e", "y">>>>,
    <<<<"p", "k">>, <<"p", "r", "i", "m", "a", "r", "y", " ", "k", "e", "y">>>>,
    <<<<"f", "k">>, <<"f", "o", "r", "e", "i", "g", "n", " ", "k", "e", "y">>>>,
    <<<<"i", "d">>, <<"i", "d", "e", "n", "t", "i", "f", "i", "e", "r">>>>,
    <<<<"s", "c", "d">>, <<"s", "l", "o", "w", "l", "y", " ", "c", "h", "a", "n", "g", "i", "n", "g", " ", "d", "i", "m", "e", "n", "s", "i", "o", "n">>>>,
    <<<<"d", "o", "b">>, <<"d", "a", "t", "e", " ", "o", "f", " ", "b", "i", "r", "t", "h">>>>,
    <<<<"s", "s", "n">>, <<"s", "o", "c", "i", "a", "l", " ", "s", "e", "c", "u", "r", "i", "t", "y", " ", "n", "u", "m", "b", "e", "r">>>>,
    <<<<"n", "u", "m">>, <<"n", "u", "m", "b", "e", "r">>>>,
    <<<<"a", "m", "t">>, <<"a", "m", "o", "u", "n", "t">>>>,
    <<<<"q", "t", "y">>, <<"q", "u", "a", "n", "t", "i", "t", "y">>>>,
    <<<<"a", "d", "d", "r">>, <<"a", "d", "d", "r", "e", "s", "s">>>>,
    <<<<"t", "e", "l">>, <<"t", "e", "l", "e", "p", "h", "o", "n", "e">>>> >>

RECURSIVE ExpandFrom(_, _)
ExpandFrom(name, k) ==
    IF k > Len(Abbreviations) THEN name
    ELSE ExpandFrom(re_sub_word(Abbreviations[k][1], Abbreviations[k][2], name), k + 1)

\* name[0].upper() + name[1:] when name is not empty
Capitalize(name) ==
    IF name = <<>> THEN name
    ELSE <<UpperChar(name[1])>> \o SubSeq(name, 2, Len(name))

_clean_column_name(name) ==
    Capitalize(ExpandFrom(lower(replace(name, <<"_">>, <<" ">>)), 1))

----------------------------------------------------------------------------
(* Sample items.  An item is a record: t is type(item).__name__, v is the  *)
(* item's numeric value in thousandths, scale is the number of decimals a  *)
(* Decimal carries, txt is the text of a str, and ok is FALSE for the one  *)
(* numeric value float() rejects with ValueError (a signaling-NaN Decimal).*)

StrItem(txt) == [t |-> "str", v |-> 0, scale |-> 0, txt |-> txt, ok |-> TRUE]

IntItem(n) == [t |-> "int", v |-> 1000 * n, scale |-> 0, txt |-> <<>>, ok |-> TRUE]

FloatItem(m) == [t |-> "float", v |-> m, scale |-> 3, txt |-> <<>>, ok |-> TRUE]

DecimalItem(m, scale) == [t |-> "Decimal", v |-> m, scale |-> scale, txt |-> <<>>, ok |-> TRUE]

SNaNItem == [t |-> "Decimal", v |-> 0, scale |-> 0, txt |-> <<>>, ok |-> FALSE]

NoneItem == [t |-> "NoneType", v |-> 0, scale |-> 0, txt |-> <<>>, ok |-> TRUE]

Abs(n) == IF n < 0 THEN 0 - n ELSE n

RECURSIVE NatStr(_)
\* the decimal digits of a natural number
NatStr(n) ==
    IF n < 10 THEN <<Digits[n + 1]>>
    ELSE NatStr(n \div 10) \o <<Digits[(n % 10) + 1]>>

\* the three digits of a number of thousandths below one
Frac3(m) == <<Digits[(m \div 100) + 1], Digits[((m \div 10) % 10) + 1], Digits[(m % 10) + 1]>>

RECURSIVE StripZeros(_)
\* the shortest fraction digits that read back as the same float
StripZeros(ds) ==
    IF Len(ds) > 1 /\ ds[Len(ds)] = "0" THEN StripZeros(SubSeq(ds, 1, Len(ds) - 1))
    ELSE ds

Sign(m) == IF m < 0 THEN <<"-">> ELSE <<>>

\* str(item)
str(item) ==
    CASE item.t = "str" -> item.txt
      [] item.t = "int" -> Sign(item.v) \o NatStr(Abs(item.v) \div 1000)
      [] item.t = "float" ->
            Sign(item.v) \o NatStr(Abs(item.v) \div 1000) \o <<".">>
                \o StripZeros(Frac3(Abs(item.v) % 1000))
      [] item.t = "Decimal" /\ ~item.ok -> <<"s", "N", "a", "N">>
      [] item.t = "Decimal" /\ item.ok ->
            Sign(item.v) \o NatStr(Abs(item.v) \div 1000)
                \o (IF item.scale = 0 THEN <<>>
                    ELSE <<".">> \o SubSeq(Frac3(Abs(item.v) % 1000), 1, item.scale))
      [] OTHER -> <<"N", "o", "n", "e">>

----------------------------------------------------------------------------
(* collections.Counter                                                     *)

RECURSIVE FirstSeen(_)
\* the distinct elements of a sequence, in order of first occurrence
FirstSeen(seq) ==
    IF seq = <<>> THEN <<>>
    ELSE LET rest == FirstSeen(SubSeq(seq, 1, Len(seq) - 1))
             x == seq[Len(seq)]
         IN IF \E i \in 1..Len(rest) : rest[i] = x THEN rest ELSE Append(rest, x)

CountOf(x, seq) == Cardinality({i \in 1..Len(seq) : seq[i] = x})

\* Counter(seq).items(): <<key, count>> pairs in insertion order
Counter(seq) ==
    LET keys == FirstSeen(seq)
    IN [i \in 1..Len(keys) |-> <<keys[i], CountOf(keys[i], seq)>>]

\* the last entry holding the highest count
FirstMax_LastTie(items) ==
    CHOOSE i \in 1..Len(items) :
        /\ \A j \in 1..Len(items) : items[j][2] <= items[i][2]
        /\ \A j \in (i + 1)..Len(items) : items[j][2] < items[i][2]

\* the first entry holding the highest count
FirstMax(items) ==
    CHOOSE i \in 1..Len(items) :
        /\ \A j \in 1..Len(items) : items[j][2] <= items[i][2]
        /\ \A j \in 1..(i - 1) : items[j][2] < items[i][2]

RemoveAt(seq, i) == SubSeq(seq, 1, i - 1) \o SubSeq(seq, i + 1, Len(seq))

RECURSIVE most_common(_, _)
\* Counter.most_common(n): highest counts first, equal counts in insertion order
most_common(items, n) ==
    IF n = 0 \/ items = <<>> THEN <<>>
    ELSE LET i == FirstMax(items)
         IN <<items[i]>> \o most_common(RemoveAt(items, i), n - 1)

----------------------------------------------------------------------------
(* _analyze_sample_data                                                    *)

None == "None"

\* a starting dict whose type is a placeholder name
EmptyAnalysis_Unknown ==
    [type |-> "unknown", common_values |-> <<>>, patterns |-> <<>>,
     entity_types |-> <<>>, stats |-> <<>>]

\* the dict _analyze_sample_data starts from; an absent list (None) and an
\* empty dict are both the empty sequence
EmptyAnalysis ==
    [type |-> None, common_values |-> <<>>, patterns |-> <<>>,
     entity_types |-> <<>>, stats |-> <<>>]

\* the numeric type names without Decimal
NumericTypes_NoDecimal == {"int", "float"}

NumericTypes == {"int", "float", "Decimal"}

TextTypes == {"str", "string"}

TopCommon == 5

TopEntities == 3

MaxNlpChars == 10000

\* [item for item in data if item is not None]
NotNone(data) == SelectSeq(data, LAMBDA item : item.t # "NoneType")

\* the list numbers built by the scan of lines 69-78
Numbers(data) ==
    LET coerced == SelectSeq(data, LAMBDA item : item.t \in NumericTypes /\ item.ok)
    IN [i \in 1..Len(coerced) |-> coerced[i].v]

RECURSIVE PyMin(_)
PyMin(xs) ==
    IF Len(xs) = 1 THEN xs[1]
    ELSE LET m == PyMin(SubSeq(xs, 1, Len(xs) - 1))
         IN IF xs[Len(xs)] < m THEN xs[Len(xs)] ELSE m

RECURSIVE PyMax(_)
PyMax(xs) ==
    IF Len(xs) = 1 THEN xs[1]
    ELSE LET m == PyMax(SubSeq(xs, 1, Len(xs) - 1))
         IN IF xs[Len(xs)] > m THEN xs[Len(xs)] ELSE m

RECURSIVE PySum(_)
PySum(xs) == IF xs = <<>> THEN 0 ELSE PySum(SubSeq(xs, 1, Len(xs) - 1)) + xs[Len(xs)]

\* the type of the first item taken whenever the types differ
DominantType_FirstItem(data) ==
    LET names == [i \in 1..Len(NotNone(data)) |-> NotNone(data)[i].t]
        types == {names[i] : i \in 1..Len(names)}
    IN IF Cardinality(types) = 1 THEN CHOOSE t \in types : TRUE
       ELSE IF Cardinality(types) > 1 THEN names[1]
       ELSE None

\* analysis['type'] after lines 81-85
DominantType(data) ==
    LET names == [i \in 1..Len(NotNone(data)) |-> NotNone(data)[i].t]
        types == {names[i] : i \in 1..Len(names)}
    IN IF Cardinality(types) = 1 THEN CHOOSE t \in types : TRUE
       ELSE IF Cardinality(types) > 1 THEN most_common(Counter(names), 1)[1][1]
       ELSE None

\* analysis['stats'] after lines 88-93; avg is kept as the exact quotient
Stats(data) ==
    LET numbers == Numbers(data)
    IN IF numbers # <<>>
       THEN [min |-> PyMin(numbers), max |-> PyMax(numbers),
             avg |-> <<PySum(numbers), Len(numbers)>>]
       ELSE <<>>

RECURSIVE Join(_, _)
\* sep.join(parts)
Join(sep, parts) ==
    IF parts = <<>> THEN <<>>
    ELSE IF Len(parts) = 1 THEN parts[1]
    ELSE Join(sep, SubSeq(parts, 1, Len(parts) - 1)) \o sep \o parts[Len(parts)]

StrForms(data) == [i \in 1..Len(NotNone(data)) |-> str(NotNone(data)[i])]

\* the text handed to self.nlp
SampleText(data) ==
    LET text == Join(<<" ">>, StrForms(data))
    IN SubSeq(text, 1, IF Len(text) < MaxNlpChars THEN Len(text) ELSE MaxNlpChars)

\* a type test that lets every sample with a type through
IsTextType_Any(type) == type # None

IsTextType(type) == type \in TextTypes

\* whether the call reaches self.nlp(...) at line 105
CallsNlp(data) ==
    /\ data # <<>>
    /\ IsTextType(DominantType(data))
    /\ Len(Join(<<" ">>, StrForms(data))) > 0

\* the returned dict; ents is the list of ent.label_ the entity extractor
\* reports for the sample text
_analyze_sample_data(data, ents) ==
    IF data = <<>> THEN EmptyAnalysis
    ELSE LET type == DominantType(data)
         IN [type |-> type,
             common_values |->
                 IF IsTextType(type) THEN most_common(Counter(StrForms(data)), TopCommon)
                 ELSE <<>>,
             patterns |-> <<>>,
             entity_types |->
                 IF CallsNlp(data) THEN most_common(Counter(ents), TopEntities)
                 ELSE <<>>,
             stats |-> Stats(data)]

----------------------------------------------------------------------------
(* generate_column_description                                             *)

\* format(x, '.2f') of a float given in thousandths: correctly rounded, an
\* exact tie going to the even neighbour
Format2f(m) ==
    LET a == Abs(m)
        h == a \div 10
        r == a % 10
        q == IF r > 5 \/ (r = 5 /\ h % 2 = 1) THEN h + 1 ELSE h
    IN Sign(m) \o NatStr(q \div 100) \o <<".">>
           \o <<Digits[((q \div 10) % 10) + 1], Digits[(q % 10) + 1]>>

\* re.search(r'id$|^id|_id$', name)
IsIdentifierName(name) ==
    EndsWith(name, <<"i", "d">>) \/ StartsWith(name, <<"i", "d">>) \/ EndsWith(name, <<"_", "i", "d">>)

\* 'date' in name or re.search(r'_dt$|_date$', name)
IsDateName(name) ==
    Contains(name, <<"d", "a", "t", "e">>) \/ EndsWith(name, <<"_", "d", "t">>) \/ EndsWith(name, <<"_", "d", "a", "t", "e">>)

\* 'amount' in name or re.search(r'_amt$|_amount$', name)
IsAmountName(name) ==
    Contains(name, <<"a", "m", "o", "u", "n", "t">>) \/ EndsWith(name, <<"_", "a", "m", "t">>) \/ EndsWith(name, <<"_", "a", "m", "o", "u", "n", "t">>)

\* 'count' in name or 'qty' in name or 'quantity' in name
IsCountName(name) ==
    Contains(name, <<"c", "o", "u", "n", "t">>) \/ Contains(name, <<"q", "t", "y">>) \/ Contains(name, <<"q", "u", "a", "n", "t", "i", "t", "y">>)

\* re.search(r'is_|_flag$|_flg$', name)
IsFlagName(name) ==
    Contains(name, <<"i", "s", "_">>) \/ EndsWith(name, <<"_", "f", "l", "a", "g">>) \/ EndsWith(name, <<"_", "f", "l", "g">>)

\* the sentence of the identifier branch (lines 127-132)
IdentifierSentence(name, clean_name) ==
    IF StartsWith(name, <<"p", "k", "_">>) \/ StartsWith(name, <<"p", "r", "i", "m", "a", "r", "y", "_">>)
    THEN <<"P", "r", "i", "m", "a", "r", "y", " ", "i", "d", "e", "n", "t", "i", "f", "i", "e", "r", " ", "f", "o", "r", " ">> \o clean_name
    ELSE IF StartsWith(name, <<"f", "k", "_">>) \/ StartsWith(name, <<"f", "o", "r", "e", "i", "g", "n", "_">>)
    THEN <<"F", "o", "r", "e", "i", "g", "n", " ", "k", "e", "y", " ", "r", "e", "f", "e", "r", "e", "n", "c", "e", " ", "t", "o", " ">> \o clean_name
    ELSE <<"I", "d", "e", "n", "t", "i", "f", "i", "e", "r", " ", "f", "o", "r", " ">> \o clean_name

\* the sentence of the date branch (lines 135-146)
DateSentence(name, clean_name) ==
    IF Contains(name, <<"c", "r", "e", "a", "t", "e">>) \/ Contains(name, <<"i", "n", "s", "e", "r", "t">>)
    THEN <<"D", "a", "t", "e", " ", "w", "h", "e", "n", " ", "t", "h", "e", " ", "r", "e", "c", "o", "r", "d", " ", "w", "a", "s", " ", "c", "r", "e", "a", "t", "e", "d">>
    ELSE IF Contains(name, <<"u", "p", "d", "a", "t", "e">>) \/ Contains(name, <<"m", "o", "d", "i", "f", "y">>)
    THEN <<"D", "a", "t", "e", " ", "w", "h", "e", "n", " ", "t", "h", "e", " ", "r", "e", "c", "o", "r", "d", " ", "w", "a", "s", " ", "l", "a", "s", "t", " ", "u", "p", "d", "a", "t", "e", "d">>
    ELSE IF Contains(name, <<"v", "a", "l", "i", "d", "_", "f", "r", "o", "m">>)
    THEN <<"D", "a", "t", "e", " ", "f", "r", "o", "m", " ", "w", "h", "i", "c", "h", " ", "t", "h", "i", "s", " ", "r", "e", "c", "o", "r", "d", " ", "i", "s", " ", "v", "a", "l", "i", "d">>
    ELSE IF Contains(name, <<"v", "a", "l", "i", "d", "_", "t", "o">>)
    THEN <<"D", "a", "t", "e", " ", "u", "n", "t", "i", "l", " ", "w", "h", "i", "c", "h", " ", "t", "h", "i", "s", " ", "r", "e", "c", "o", "r", "d", " ", "i", "s", " ", "v", "a", "l", "i", "d">>
    ELSE IF Contains(name, <<"b", "i", "r", "t", "h">>)
    THEN <<"D", "a", "t", "e", " ", "o", "f", " ", "b", "i", "r", "t", "h">>
    ELSE <<"D", "a", "t", "e", " ", "a", "s", "s", "o", "c", "i", "a", "t", "e", "d", " ", "w", "i", "t", "h", " ">> \o clean_name

\* the range suffix with the two ends exchanged
RangeSuffix_Swapped(profile) ==
    IF profile.stats # <<>>
    THEN <<" ", "(", "r", "a", "n", "g", "e", "s", " ", "f", "r", "o", "m", " ">> \o Format2f(profile.stats.max) \o <<" ", "t", "o", " ">>
             \o Format2f(profile.stats.min) \o <<")">>
    ELSE <<>>

\* the range suffix of the amount branch (lines 152-156)
RangeSuffix(profile) ==
    IF profile.stats # <<>>
    THEN <<" ", "(", "r", "a", "n", "g", "e", "s", " ", "f", "r", "o", "m", " ">> \o Format2f(profile.stats.min) \o <<" ", "t", "o", " ">>
             \o Format2f(profile.stats.max) \o <<")">>
    ELSE <<>>

\* the sentence of the amount branch (lines 149-156)
AmountSentence(clean_name, profile) ==
    <<"M", "o", "n", "e", "t", "a", "r", "y", " ", "a", "m", "o", "u", "n", "t", " ", "f", "o", "r", " ">> \o clean_name \o RangeSuffix(profile)

\* the sentence of the count branch (line 159)
CountSentence(clean_name) == <<"C", "o", "u", "n", "t", " ", "o", "r", " ", "q", "u", "a", "n", "t", "i", "t", "y", " ", "o", "f", " ">> \o clean_name

\* [v[0] for v in analysis['common_values']] joined with ', '
CommonValueList(profile) ==
    Join(<<",", " ">>, [i \in 1..Len(profile.common_values) |-> profile.common_values[i][1]])

\* the sentence of the flag branch (lines 162-165)
FlagSentence(clean_name, profile) ==
    <<"F", "l", "a", "g", " ", "i", "n", "d", "i", "c", "a", "t", "i", "n", "g", " ">> \o clean_name
        \o (IF profile.common_values # <<>>
            THEN <<" ", "(", "p", "o", "s", "s", "i", "b", "l", "e", " ", "v", "a", "l", "u", "e", "s", ":", " ">> \o CommonValueList(profile) \o <<")">>
            ELSE <<>>)

\* the audit and SCD column names of lines 168-183 with their sentences
SpecialColumns == <<
    <<<<"a", "d", "t", "_", "l", "o", "a", "d", "_", "d", "a", "t", "e">>,
      <<"A", "u", "d", "i", "t", " ", "l", "o", "a", "d", " ", "d", "a", "t", "e", " ", "u", "s", "e", "d", " ", "f", "o", "r", " ", "r", "e", "c", "o", "r", "d", " ", "i", "d", "e", "n", "t", "i", "f", "i", "c", "a", "t", "i", "o", "n", " ", "a", "c", "r", "o", "s", "s", " ", "t", "h", "e", " ", "d", "a", "t", "a", " ", "p", "i", "p", "e", "l", "i", "n", "e">>>>,
    <<<<"a", "d", "t", "_", "f", "i", "l", "e", "_", "s", "o", "u", "r", "c", "e">>,
      <<"A", "u", "d", "i", "t", " ", "f", "i", "l", "e", " ", "s", "o", "u", "r", "c", "e", " ", "u", "s", "e", "d", " ", "f", "o", "r", " ", "r", "e", "c", "o", "r", "d", " ", "i", "d", "e", "n", "t", "i", "f", "i", "c", "a", "t", "i", "o", "n", " ", "a", "c", "r", "o", "s", "s", " ", "t", "h", "e", " ", "d", "a", "t", "a", " ", "p", "i", "p", "e", "l", "i", "n", "e">>>>,
    <<<<"a", "d", "t", "_", "h", "a", "s", "h", "_", "k", "e", "y">>,
      <<"H", "a", "s", "h", " ", "k", "e", "y", " ", "u", "s", "e", "d", " ", "f", "o", "r", " ", "r", "e", "c", "o", "r", "d", " ", "i", "d", "e", "n", "t", "i", "f", "i", "c", "a", "t", "i", "o", "n", " ", "a", "c", "r", "o", "s", "s", " ", "t", "h", "e", " ", "d", "a", "t", "a", " ", "p", "i", "p", "e", "l", "i", "n", "e">>>>,
    <<<<"d", "b", "t", "_", "s", "c", "d", "_", "i", "d">>,
      <<"S", "C", "D", " ", "t", "y", "p", "e", " ", "2", " ", "i", "d", "e", "n", "t", "i", "f", "i", "e", "r", ",", " ", "u", "s", "e", "d", " ", "f", "o", "r", " ", "t", "r", "a", "c", "k", "i", "n", "g", " ", "d", "i", "f", "f", "e", "r", "e", "n", "t", " ", "v", "e", "r", "s", "i", "o", "n", "s", " ", "o", "f", " ", "a", " ", "e", "a", "c", "h", " ", "r", "e", "c", "o", "r", "d">>>>,
    <<<<"d", "b", "t", "_", "u", "p", "d", "a", "t", "e", "d", "_", "a", "t">>,
      <<"S", "C", "D", " ", "t", "y", "p", "e", " ", "2", " ", "u", "p", "d", "a", "t", "e", "d", " ", "t", "i", "m", "e", "s", "t", "a", "m", "p", ",", " ", "i", "n", "d", "i", "c", "a", "t", "i", "n", "g", " ", "w", "h", "e", "n", " ", "t", "h", "e", " ", "r", "e", "c", "o", "r", "d", " ", "w", "a", "s", " ", "l", "a", "s", "t", " ", "m", "o", "d", "i", "f", "i", "e", "d">>>>,
    <<<<"d", "b", "t", "_", "v", "a", "l", "i", "d", "_", "f", "r", "o", "m">>,
      <<"S", "C", "D", " ", "t", "y", "p", "e", " ", "2", " ", "v", "a", "l", "i", "d", "i", "t", "y", " ", "s", "t", "a", "r", "t", " ", "t", "i", "m", "e", "s", "t", "a", "m", "p", ",", " ", "i", "n", "d", "i", "c", "a", "t", "i", "n", "g", " ", "s", "i", "n", "c", "e", " ", "w", "h", "e", "n", " ", "t", "h", "e", " ", "r", "e", "c", "o", "r", "d", " ", "w", "a", "s", " ", "v", "a", "l", "i", "d">>>>,
    <<<<"d", "b", "t", "_", "v", "a", "l", "i", "d", "_", "t", "o">>,
      <<"S", "C", "D", " ", "t", "y", "p", "e", " ", "2", " ", "v", "a", "l", "i", "d", "i", "t", "y", " ", "e", "n", "d", " ", "t", "i", "m", "e", "s", "t", "a", "m", "p", ",", " ", "i", "n", "d", "i", "c", "a", "t", "i", "n", "g", " ", "s", "i", "n", "c", "e", " ", "w", "h", "e", "n", " ", "t", "h", "e", " ", "r", "e", "c", "o", "r", "d", " ", "w", "a", "s", " ", "v", "a", "l", "i", "d">>>>,
    <<<<"r", "e", "c", "o", "r", "d", "_", "s", "k">>,
      <<"U", "n", "i", "q", "u", "e", " ", "k", "e", "y", " ", "i", "d", "e", "n", "t", "i", "f", "i", "e", "r", " ", "f", "o", "r", " ", "e", "a", "c", "h", " ", "r", "e", "c", "o", "r", "d">>>> >>

IsSpecialName(name) == \E k \in 1..Len(SpecialColumns) : SpecialColumns[k][1] = name

SpecialSentence(name) ==
    SpecialColumns[CHOOSE k \in 1..Len(SpecialColumns) : SpecialColumns[k][1] = name][2]

RECURSIVE IndexOf(_, _, _)
\* the position of the first c in s at or after i, or Len(s) + 1
IndexOf(s, c, i) ==
    IF i > Len(s) \/ s[i] = c THEN i ELSE IndexOf(s, c, i + 1)

\* data_type.split('(')[0].lower()
TypeName(type) == lower(SubSeq(type, 1, IndexOf(type, "(", 1) - 1))

\* the declared-type branch with its last test turned into a plain else
TypeSentence_ElseBoolean(type, clean_name, profile) ==
    LET type_name == TypeName(type)
    IN IF \/ Contains(type_name, <<"v", "a", "r", "c", "h", "a", "r">>) \/ Contains(type_name, <<"c", "h", "a", "r">>)
          \/ Contains(type_name, <<"s", "t", "r", "i", "n", "g">>) \/ Contains(type_name, <<"t", "e", "x", "t">>)
       THEN <<"T", "e", "x", "t", " ", "f", "i", "e", "l", "d", " ", "c", "o", "n", "t", "a", "i", "n", "i", "n", "g", " ">> \o clean_name
                \o (IF profile.common_values # <<>> /\ Len(profile.common_values) <= 3
                    THEN <<" ", "(", "e", ".", "g", ".", ",", " ">> \o CommonValueList(profile) \o <<")">>
                    ELSE <<>>)
       ELSE IF \/ Contains(type_name, <<"i", "n", "t">>) \/ Contains(type_name, <<"n", "u", "m", "b", "e", "r">>)
               \/ Contains(type_name, <<"d", "e", "c", "i", "m", "a", "l">>) \/ Contains(type_name, <<"f", "l", "o", "a", "t">>)
       THEN <<"N", "u", "m", "e", "r", "i", "c", " ", "v", "a", "l", "u", "e", " ", "r", "e", "p", "r", "e", "s", "e", "n", "t", "i", "n", "g", " ">> \o clean_name
       ELSE IF Contains(type_name, <<"d", "a", "t", "e">>) \/ Contains(type_name, <<"t", "i", "m", "e">>)
       THEN <<"D", "a", "t", "e", "/", "t", "i", "m", "e", " ", "v", "a", "l", "u", "e", " ", "f", "o", "r", " ">> \o clean_name
       ELSE <<"B", "o", "o", "l", "e", "a", "n", " ", "f", "l", "a", "g", " ", "i", "n", "d", "i", "c", "a", "t", "i", "n", "g", " ">> \o clean_name

\* the sentence of the declared-type branch (lines 186-205)
TypeSentence(type, clean_name, profile) ==
    LET type_name == TypeName(type)
    IN IF \/ Contains(type_name, <<"v", "a", "r", "c", "h", "a", "r">>) \/ Contains(type_name, <<"c", "h", "a", "r">>)
          \/ Contains(type_name, <<"s", "t", "r", "i", "n", "g">>) \/ Contains(type_name, <<"t", "e", "x", "t">>)
       THEN <<"T", "e", "x", "t", " ", "f", "i", "e", "l", "d", " ", "c", "o", "n", "t", "a", "i", "n", "i", "n", "g", " ">> \o clean_name
                \o (IF profile.common_values # <<>> /\ Len(profile.common_values) <= 3
                    THEN <<" ", "(", "e", ".", "g", ".", ",", " ">> \o CommonValueList(profile) \o <<")">>
                    ELSE <<>>)
       ELSE IF \/ Contains(type_name, <<"i", "n", "t">>) \/ Contains(type_name, <<"n", "u", "m", "b", "e", "r">>)
               \/ Contains(type_name, <<"d", "e", "c", "i", "m", "a", "l">>) \/ Contains(type_name, <<"f", "l", "o", "a", "t">>)
       THEN <<"N", "u", "m", "e", "r", "i", "c", " ", "v", "a", "l", "u", "e", " ", "r", "e", "p", "r", "e", "s", "e", "n", "t", "i", "n", "g", " ">> \o clean_name
       ELSE IF Contains(type_name, <<"d", "a", "t", "e">>) \/ Contains(type_name, <<"t", "i", "m", "e">>)
       THEN <<"D", "a", "t", "e", "/", "t", "i", "m", "e", " ", "v", "a", "l", "u", "e", " ", "f", "o", "r", " ">> \o clean_name
       ELSE IF Contains(type_name, <<"b", "o", "o", "l">>)
       THEN <<"B", "o", "o", "l", "e", "a", "n", " ", "f", "l", "a", "g", " ", "i", "n", "d", "i", "c", "a", "t", "i", "n", "g", " ">> \o clean_name
       ELSE clean_name

\* the chain with the date test placed ahead of the identifier test
DescribeColumn_DateFirst(name, type, profile) ==
    LET clean_name == _clean_column_name(name)
        lname == lower(name)
    IN IF IsDateName(lname) THEN DateSentence(lname, clean_name)
       ELSE IF IsIdentifierName(lname) THEN IdentifierSentence(lname, clean_name)
       ELSE IF IsAmountName(lname) THEN AmountSentence(clean_name, profile)
       ELSE IF IsCountName(lname) THEN CountSentence(clean_name)
       ELSE IF IsFlagName(lname) THEN FlagSentence(clean_name, profile)
       ELSE IF IsSpecialName(lname) THEN SpecialSentence(lname)
       ELSE IF type # <<>> THEN TypeSentence(type, clean_name, profile)
       ELSE clean_name

\* the if/elif chain of lines 126-207, given the profile of the sample
DescribeColumn(name, type, profile) ==
    LET clean_name == _clean_column_name(name)
        lname == lower(name)
    IN IF IsIdentifierName(lname) THEN IdentifierSentence(lname, clean_name)
       ELSE IF IsDateName(lname) THEN DateSentence(lname, clean_name)
       ELSE IF IsAmountName(lname) THEN AmountSentence(clean_name, profile)
       ELSE IF IsCountName(lname) THEN CountSentence(clean_name)
       ELSE IF IsFlagName(lname) THEN FlagSentence(clean_name, profile)
       ELSE IF IsSpecialName(lname) THEN SpecialSentence(lname)
       ELSE IF type # <<>> THEN TypeSentence(type, clean_name, profile)
       ELSE clean_name

\* generate_column_description; ents is what the entity extractor reports
generate_column_description(name, type, data, ents) ==
    DescribeColumn(name, type, _analyze_sample_data(data, ents))

----------------------------------------------------------------------------
(* SnowflakeConnector                                                      *)

\* get_sample_data with an except clause that raises again
get_sample_data_Reraise(outcome, fetched) ==
    IF outcome = "error"
    THEN [raised |-> TRUE, value |-> <<>>]
    ELSE [raised |-> FALSE, value |-> [i \in 1..Len(fetched) |-> fetched[i][1]]]

\* get_sample_data (lines 170-183): the first value of every fetched row,
\* or [] when execute or fetchall raised; outcome tells which
get_sample_data(outcome, fetched) ==
    IF outcome = "error"
    THEN [raised |-> FALSE, value |-> <<>>]
    ELSE [raised |-> FALSE, value |-> [i \in 1..Len(fetched) |-> fetched[i][1]]]

\* close that leaves the connection in place
close_KeepsConnection(connection) == connection

\* close (lines 279-284): conn after the call
close(connection) == IF connection # None THEN None ELSE connection

----------------------------------------------------------------------------
(* generate_table_description                                              *)

\* 'dbt_' not in col_name and 'adt_' not in col_name
NoPipelinePrefix(col_name) ==
    ~Contains(col_name, <<"d", "b", "t", "_">>) /\ ~Contains(col_name, <<"a", "d", "t", "_">>)

\* re.search(r'id$|^id|_id$|key$|^key|_key$', col_name)
IsKeyColumn(col_name) ==
    \/ EndsWith(col_name, <<"i", "d">>) \/ StartsWith(col_name, <<"i", "d">>)
    \/ EndsWith(col_name, <<"_", "i", "d">>)
    \/ EndsWith(col_name, <<"k", "e", "y">>) \/ StartsWith(col_name, <<"k", "e", "y">>)
    \/ EndsWith(col_name, <<"_", "k", "e", "y">>)

\* the chain with the status test ahead of the others
ColumnBranch_StatusFirst(col_name) ==
    IF Contains(col_name, <<"s", "t", "a", "t", "u", "s">>) \/ Contains(col_name, <<"s", "t", "a", "t", "e">>) THEN "status"
    ELSE IF IsKeyColumn(col_name) /\ NoPipelinePrefix(col_name) THEN "id"
    ELSE IF Contains(col_name, <<"n", "a", "m", "e">>) THEN "name"
    ELSE IF Contains(col_name, <<"d", "a", "t", "e">>) /\ NoPipelinePrefix(col_name) THEN "date"
    ELSE IF Contains(col_name, <<"a", "m", "o", "u", "n", "t">>) \/ Contains(col_name, <<"_", "a", "m", "t">>) THEN "amount"
    ELSE "none"

\* the branch of the if/elif chain of lines 230-261 a column takes
ColumnBranch(col_name) ==
    IF IsKeyColumn(col_name) /\ NoPipelinePrefix(col_name) THEN "id"
    ELSE IF Contains(col_name, <<"n", "a", "m", "e">>) THEN "name"
    ELSE IF Contains(col_name, <<"d", "a", "t", "e">>) /\ NoPipelinePrefix(col_name) THEN "date"
    ELSE IF Contains(col_name, <<"a", "m", "o", "u", "n", "t">>) \/ Contains(col_name, <<"_", "a", "m", "t">>) THEN "amount"
    ELSE IF Contains(col_name, <<"s", "t", "a", "t", "u", "s">>) \/ Contains(col_name, <<"s", "t", "a", "t", "e">>) THEN "status"
    ELSE "none"

\* the name with the branch's tokens removed (lines 233, 240, 248, 255)
StripToken(col_name, branch) ==
    CASE branch = "id" -> replace(replace(col_name, <<"_", "i", "d">>, <<>>), <<"i", "d", "_">>, <<>>)
      [] branch = "name" -> replace(replace(col_name, <<"_", "n", "a", "m", "e">>, <<>>), <<"n", "a", "m", "e", "_">>, <<>>)
      [] branch = "date" -> replace(replace(col_name, <<"_", "d", "a", "t", "e">>, <<>>), <<"d", "a", "t", "e", "_">>, <<>>)
      [] branch = "amount" ->
            replace(replace(replace(replace(col_name, <<"_", "a", "m", "o", "u", "n", "t">>, <<>>),
                <<"a", "m", "o", "u", "n", "t", "_">>, <<>>), <<"_", "a", "m", "t">>, <<>>), <<"a", "m", "t", "_">>, <<>>)
      [] OTHER -> <<>>

MinEntityLen == 2

\* what a column appends to important_columns: nothing, or one fragment
Fragments(col_name) ==
    LET branch == ColumnBranch(col_name)
        fragment == StripToken(col_name, branch)
    IN IF \/ branch \in {"status", "none"}
          \/ (branch = "id" /\ col_name = <<"i", "d">>)
          \/ (branch = "date" /\ col_name = <<"d", "a", "t", "e">>)
          \/ ~(Len(fragment) > MinEntityLen)
       THEN <<>>
       ELSE <<fragment>>

RECURSIVE ImportantColumns(_)
\* important_columns after the scan of lines 226-261
ImportantColumns(cols) ==
    IF cols = <<>> THEN <<>>
    ELSE ImportantColumns(SubSeq(cols, 1, Len(cols) - 1)) \o Fragments(lower(cols[Len(cols)]))

\* the branch each column of the scan takes, in column order
Branches(cols) == [i \in 1..Len(cols) |-> ColumnBranch(lower(cols[i]))]

\* has_id, has_name, has_date, has_amount, has_status after the scan
HasBranch(branches, branch) == \E i \in 1..Len(branches) : branches[i] = branch

\* set(readable_entities) of line 271
UniqueEntities(important) ==
    {_clean_column_name(important[i]) : i \in 1..Len(important)}

RECURSIVE Orderings(_)
\* the orders list(set(...)) can yield: every arrangement of the set
Orderings(S) ==
    IF S = {} THEN {<<>>}
    ELSE UNION {{<<x>> \o rest : rest \in Orderings(S \ {x})} : x \in S}

MaxEntities == 3

MaxDetails == 3

\* the entity sentence with the limit taken as exclusive
EntitySentence_Exclusive(clean_name, important, order) ==
    IF important = <<>> \/ order = <<>>
    THEN <<"C", "o", "n", "t", "a", "i", "n", "s", " ", "i", "n", "f", "o", "r", "m", "a", "t", "i", "o", "n", " ", "r", "e", "l", "a", "t", "e", "d", " ", "t", "o", " ">> \o clean_name
    ELSE IF Len(order) < MaxEntities
    THEN <<"C", "o", "n", "t", "a", "i", "n", "s", " ", "i", "n", "f", "o", "r", "m", "a", "t", "i", "o", "n", " ", "a", "b", "o", "u", "t", " ">> \o Join(<<",", " ">>, order)
    ELSE <<"C", "o", "n", "t", "a", "i", "n", "s", " ", "v", "a", "r", "i", "o", "u", "s", " ", "i", "n", "f", "o", "r", "m", "a", "t", "i", "o", "n", " ", "r", "e", "l", "a", "t", "e", "d", " ", "t", "o", " ">> \o clean_name

\* description after lines 264-277; important is important_columns and
\* order is unique_entities as a list
EntitySentence(clean_name, important, order) ==
    IF important = <<>> \/ order = <<>>
    THEN <<"C", "o", "n", "t", "a", "i", "n", "s", " ", "i", "n", "f", "o", "r", "m", "a", "t", "i", "o", "n", " ", "r", "e", "l", "a", "t", "e", "d", " ", "t", "o", " ">> \o clean_name
    ELSE IF Len(order) <= MaxEntities
    THEN <<"C", "o", "n", "t", "a", "i", "n", "s", " ", "i", "n", "f", "o", "r", "m", "a", "t", "i", "o", "n", " ", "a", "b", "o", "u", "t", " ">> \o Join(<<",", " ">>, order)
    ELSE <<"C", "o", "n", "t", "a", "i", "n", "s", " ", "v", "a", "r", "i", "o", "u", "s", " ", "i", "n", "f", "o", "r", "m", "a", "t", "i", "o", "n", " ", "r", "e", "l", "a", "t", "e", "d", " ", "t", "o", " ">> \o clean_name

\* the list details of lines 280-290
Details(cols) ==
    LET branches == Branches(cols)
    IN (IF HasBranch(branches, "id") THEN <<<<"i", "d", "e", "n", "t", "i", "f", "i", "e", "r", "s">>>> ELSE <<>>)
       \o (IF HasBranch(branches, "name") THEN <<<<"n", "a", "m", "e", "s">>>> ELSE <<>>)
       \o (IF HasBranch(branches, "date") THEN <<<<"d", "a", "t", "e", "s">>>> ELSE <<>>)
       \o (IF HasBranch(branches, "amount") THEN <<<<"a", "m", "o", "u", "n", "t", "s">>>> ELSE <<>>)
       \o (IF HasBranch(branches, "status") THEN <<<<"s", "t", "a", "t", "u", "s", " ", "i", "n", "f", "o", "r", "m", "a", "t", "i", "o", "n">>>> ELSE <<>>)

\* the clause with the generic wording chosen one bucket too late
DetailsClause_Late(cols) ==
    LET details == Details(cols)
    IN IF details = <<>> THEN <<>>
       ELSE IF Len(details) <= MaxDetails + 1 THEN <<" ", "i", "n", "c", "l", "u", "d", "i", "n", "g", " ">> \o Join(<<",", " ">>, details)
       ELSE <<" ", "i", "n", "c", "l", "u", "d", "i", "n", "g", " ", "v", "a", "r", "i", "o", "u", "s", " ", "a", "t", "t", "r", "i", "b", "u", "t", "e", "s", " ", "a", "n", "d", " ", "m", "e", "t", "r", "i", "c", "s">>

\* the clause of lines 292-297
DetailsClause(cols) ==
    LET details == Details(cols)
    IN IF details = <<>> THEN <<>>
       ELSE IF Len(details) <= MaxDetails THEN <<" ", "i", "n", "c", "l", "u", "d", "i", "n", "g", " ">> \o Join(<<",", " ">>, details)
       ELSE <<" ", "i", "n", "c", "l", "u", "d", "i", "n", "g", " ", "v", "a", "r", "i", "o", "u", "s", " ", "a", "t", "t", "r", "i", "b", "u", "t", "e", "s", " ", "a", "n", "d", " ", "m", "e", "t", "r", "i", "c", "s">>

\* the strings generate_table_description can return, one for each order in
\* which the two list(set(...)) conversions can deliver the entities
generate_table_description(table, cols) ==
    LET clean_name == _clean_column_name(table)
        important == ImportantColumns(cols)
        clause == DetailsClause(cols)
    IN {EntitySentence(clean_name, important, order) \o clause :
            order \in Orderings(UniqueEntities(important))}

----------------------------------------------------------------------------
(* SnowflakeConnector: the sources of descriptions                         *)

\* outcomes of a query: it raised, it gave no row or NULL, it gave a string
\* (value), it gave a dict (items, the pairs <<key, value>> in insertion
\* order), it gave rows of two values (items)
QueryError == [kind |-> "error", value |-> <<>>, items |-> <<>>]

NoResult == [kind |-> "none", value |-> <<>>, items |-> <<>>]

TextResult(text) == [kind |-> "value", value |-> text, items |-> <<>>]

DictResult(dict) == [kind |-> "dict", value |-> <<>>, items |-> dict]

RowsResult(fetched) == [kind |-> "rows", value |-> <<>>, items |-> fetched]

\* result and result[0]
Truthy(result) ==
    \/ result.kind = "value" /\ result.value # <<>>
    \/ result.kind = "dict" /\ result.items # <<>>

\* the column names of what get_columns returned
ColumnNamesOf(cols) == [i \in 1..Len(cols) |-> cols[i].name]

\* get_table_description with the existing comment consulted first
get_table_description_CommentFirst(ai, comment, table, cols) ==
    IF Truthy(comment) THEN {comment.value}
    ELSE IF Truthy(ai) THEN {ai.value}
    ELSE generate_table_description(table, ColumnNamesOf(cols))

\* get_table_description (lines 185-218): the strings it can return
get_table_description(ai, comment, table, cols) ==
    IF Truthy(ai) THEN {ai.value}
    ELSE IF Truthy(comment) THEN {comment.value}
    ELSE generate_table_description(table, ColumnNamesOf(cols))

\* key in dict
HasKey(dict, key) == \E i \in 1..Len(dict) : dict[i][1] = key

\* dict[key]
Get(dict, key) == dict[CHOOSE i \in 1..Len(dict) : dict[i][1] = key][2]

RECURSIVE ExistingFrom(_)
\* existing_comments after the loop of lines 249-251 over the fetched rows
\* <<column_name, comment>>: a later row replaces the value of its key
ExistingFrom(fetched) ==
    IF fetched = <<>> THEN <<>>
    ELSE LET before == ExistingFrom(SubSeq(fetched, 1, Len(fetched) - 1))
             row == fetched[Len(fetched)]
         IN IF row[2] = <<>> THEN before
            ELSE IF HasKey(before, row[1])
            THEN [i \in 1..Len(before) |->
                     IF before[i][1] = row[1] THEN <<row[1], row[2]>> ELSE before[i]]
            ELSE Append(before, <<row[1], row[2]>>)

\* existing_comments after lines 240-253
ExistingComments(comments) ==
    IF comments.kind # "rows" THEN <<>> ELSE ExistingFrom(comments.items)

\* the declared type of the named column
TypeOf(cols, name) == cols[CHOOSE i \in 1..Len(cols) : cols[i].name = name].type

RECURSIVE DescribeEach(_, _, _, _)
\* descriptions after the loop of lines 256-273
DescribeEach(cols, existing, sample, ents) ==
    IF cols = <<>> THEN <<>>
    ELSE LET before == DescribeEach(SubSeq(cols, 1, Len(cols) - 1), existing,
                                    sample, ents)
             column == cols[Len(cols)]
             text == IF HasKey(existing, column.name) THEN Get(existing, column.name)
                     ELSE generate_column_description(column.name, column.type,
                                                      sample, ents)
         IN IF HasKey(before, column.name)
            THEN [i \in 1..Len(before) |->
                     IF before[i][1] = column.name THEN <<column.name, text>>
                     ELSE before[i]]
            ELSE Append(before, <<column.name, text>>)

\* get_column_descriptions (lines 220-277): the dict it returns and the
\* columns it called get_sample_data for; outcome and fetched are what the
\* sampling query does, ents what the entity extractor reports
get_column_descriptions(ai, comments, cols, outcome, fetched, ents) ==
    IF Truthy(ai) /\ ai.kind = "dict"
    THEN [descriptions |-> ai.items, sampled |-> <<>>]
    ELSE LET existing == ExistingComments(comments)
             sample == get_sample_data(outcome, fetched).value
         IN [descriptions |-> DescribeEach(cols, existing, sample, ents),
             sampled |-> SelectSeq(ColumnNamesOf(cols),
                                   LAMBDA name : ~HasKey(existing, name))]

SchemaName == <<"a", "n", "a", "l", "y", "t", "i", "c", "s">>

\* table_model after lines 34-53 of generate_model_yaml
TableModel(table, cols, text, descriptions) ==
    [name |-> table,
     description |-> IF text # <<>> THEN text
                     ELSE <<"D", "a", "t", "a", " ", "f", "r", "o", "m", " ">> \o SchemaName \o <<".">> \o table,
     columns |->
         [i \in 1..Len(cols) |->
             [name |-> cols[i].name,
              description |->
                  IF HasKey(descriptions, cols[i].name)
                  THEN Get(descriptions, cols[i].name)
                  ELSE <<"C", "o", "l", "u", "m", "n", " ">> \o cols[i].name \o <<" ", "f", "r", "o", "m", " ">> \o table]]]

----------------------------------------------------------------------------
(* Input spaces                                                            *)

MaxSample == 3

MaxColumnSample == 2

MaxTextSample == 6

MaxColumns == 4

\* all sequences over S of length at most n
SeqsUpTo(S, n) == UNION {[1..k -> S] : k \in 0..n}

\* sample items handed to _analyze_sample_data
AnalyzeItems ==
    {StrItem(<<"A", "c", "m", "e">>), StrItem(<<"7">>), IntItem(7), IntItem(-2),
     FloatItem(2500), DecimalItem(1250, 2), SNaNItem, NoneItem}

\* items of the longer, mostly textual samples
TextItems ==
    {StrItem(<<"a">>), StrItem(<<"b">>), StrItem(<<"c">>), StrItem(<<"d">>),
     StrItem(<<"e">>), IntItem(7)}

\* what the entity extractor may report for a sample text
NerOutcomes == {<<>>, <<"GPE", "ORG", "ORG">>}

\* sample items of a described column
ColumnItems ==
    {StrItem(<<"Y">>), StrItem(<<"N">>), DecimalItem(10000, 2), FloatItem(99999),
     FloatItem(125), FloatItem(-1), SNaNItem}

ColumnNames ==
    {<<"a", "d", "t", "_", "l", "o", "a", "d", "_", "d", "a", "t", "e">>, <<"a", "d", "t", "_", "f", "i", "l", "e", "_", "s", "o", "u", "r", "c", "e">>, <<"a", "d", "t", "_", "h", "a", "s", "h", "_", "k", "e", "y">>, <<"d", "b", "t", "_", "s", "c", "d", "_", "i", "d">>,
     <<"d", "b", "t", "_", "u", "p", "d", "a", "t", "e", "d", "_", "a", "t">>, <<"d", "b", "t", "_", "v", "a", "l", "i", "d", "_", "f", "r", "o", "m">>, <<"d", "b", "t", "_", "v", "a", "l", "i", "d", "_", "t", "o">>, <<"r", "e", "c", "o", "r", "d", "_", "s", "k">>,
     <<"D", "B", "T", "_", "S", "C", "D", "_", "I", "D">>, <<"R", "e", "c", "o", "r", "d", "_", "S", "K">>,
     <<"d", "a", "t", "e", "_", "i", "d">>, <<"c", "u", "s", "t", "o", "m", "e", "r", "_", "i", "d">>, <<"p", "k", "_", "c", "u", "s", "t", "o", "m", "e", "r", "_", "i", "d">>, <<"f", "k", "_", "o", "r", "d", "e", "r", "_", "i", "d">>, <<"i", "d">>,
     <<"i", "s", "_", "p", "a", "i", "d">>, <<"o", "r", "d", "e", "r", "_", "d", "a", "t", "e">>, <<"c", "r", "e", "a", "t", "e", "d", "_", "d", "a", "t", "e">>, <<"u", "p", "d", "a", "t", "e", "_", "d", "t">>,
     <<"v", "a", "l", "i", "d", "_", "f", "r", "o", "m", "_", "d", "a", "t", "e">>, <<"v", "a", "l", "i", "d", "_", "t", "o", "_", "d", "a", "t", "e">>, <<"b", "i", "r", "t", "h", "_", "d", "a", "t", "e">>, <<"a", "m", "o", "u", "n", "t", "_", "d", "a", "t", "e">>,
     <<"t", "o", "t", "a", "l", "_", "a", "m", "o", "u", "n", "t">>, <<"t", "a", "x", "_", "a", "m", "t">>, <<"d", "i", "s", "c", "o", "u", "n", "t", "_", "a", "m", "o", "u", "n", "t">>, <<"i", "t", "e", "m", "_", "c", "o", "u", "n", "t">>,
     <<"o", "r", "d", "e", "r", "_", "q", "t", "y">>, <<"a", "c", "c", "o", "u", "n", "t", "_", "f", "l", "a", "g">>, <<"i", "s", "_", "a", "c", "t", "i", "v", "e">>, <<"a", "c", "t", "i", "v", "e", "_", "f", "l", "g">>,
     <<"t", "h", "i", "s", "_", "v", "a", "l", "u", "e">>, <<"s", "t", "a", "t", "u", "s">>, <<"n", "o", "t", "e", "s">>}

DataTypes ==
    {<<>>, <<"V", "A", "R", "C", "H", "A", "R", "(", "1", "6", "7", "7", "7", "2", "1", "6", ")">>, <<"N", "U", "M", "B", "E", "R", "(", "3", "8", ",", "2", ")">>, <<"T", "I", "M", "E", "S", "T", "A", "M", "P", "_", "N", "T", "Z", "(", "9", ")">>,
     <<"B", "O", "O", "L", "E", "A", "N">>, <<"V", "A", "R", "I", "A", "N", "T">>}

TableColumnNames ==
    {<<"c", "u", "s", "t", "o", "m", "e", "r", "_", "i", "d">>, <<"c", "u", "s", "t", "o", "m", "e", "r", "_", "n", "a", "m", "e">>, <<"o", "r", "d", "e", "r", "_", "d", "a", "t", "e">>, <<"t", "o", "t", "a", "l", "_", "a", "m", "o", "u", "n", "t">>,
     <<"s", "t", "a", "t", "u", "s">>, <<"p", "r", "o", "d", "u", "c", "t", "_", "k", "e", "y">>}

MaxWords == 2

\* the words the cleaned names are made of: every abbreviation and some
\* words that contain one
CleanWords ==
    {<<"a", "d", "t">>, <<"a", "n", "b">>, <<"s", "k">>, <<"p", "k">>, <<"f", "k">>, <<"i", "d">>, <<"s", "c", "d">>, <<"d", "o", "b">>, <<"s", "s", "n">>,
     <<"n", "u", "m">>, <<"a", "m", "t">>, <<"q", "t", "y">>, <<"a", "d", "d", "r">>, <<"t", "e", "l">>,
     <<>>, <<"I", "D">>, <<"p", "a", "i", "d">>, <<"a", "d", "d", "r", "e", "s", "s">>, <<"n", "u", "m", "b", "e", "r">>, <<"c", "u", "s", "t", "o", "m", "e", "r">>}

\* the names handed to _clean_column_name
CleanNames == {Join(<<"_">>, words) : words \in SeqsUpTo(CleanWords, MaxWords)}

MaxScanColumns == 2

\* the column names of the tables whose scan is studied: names with a dbt_
\* or adt_ prefix of each shape, names matching several patterns, names
\* matched through id, key, name, date, amount, _amt, status
ScanColumnNames ==
    {<<"a", "d", "t", "_", "f", "i", "l", "e", "_", "n", "a", "m", "e">>, <<"d", "b", "t", "_", "s", "t", "a", "t", "u", "s">>, <<"a", "d", "t", "_", "t", "o", "t", "a", "l", "_", "a", "m", "o", "u", "n", "t">>, <<"a", "d", "t", "_", "l", "o", "a", "d", "_", "d", "a", "t", "e">>,
     <<"d", "b", "t", "_", "s", "c", "d", "_", "i", "d">>, <<"s", "t", "a", "t", "u", "s", "_", "i", "d">>, <<"n", "a", "m", "e", "_", "d", "a", "t", "e">>, <<"c", "u", "s", "t", "o", "m", "e", "r", "_", "k", "e", "y">>,
     <<"C", "u", "s", "t", "o", "m", "e", "r", "_", "I", "D">>, <<"o", "r", "d", "e", "r", "_", "d", "a", "t", "e">>, <<"t", "o", "t", "a", "l", "_", "a", "m", "o", "u", "n", "t">>, <<"t", "a", "x", "_", "a", "m", "t">>, <<"p", "a", "i", "d">>,
     <<"i", "d">>, <<"n", "o", "t", "e", "s">>}

MaxRows == 1

\* what cursor.fetchall() can return for the sampling query: rows of one
\* value each
FetchedRows == SeqsUpTo({<<item>> : item \in ColumnItems}, MaxRows)

MaxTables == 4

MaxDescribeColumns == 2

\* the rows DESCRIBE TABLE can give for the tables whose model is built
DescribeCatalog ==
    {[name |-> <<"c", "u", "s", "t", "o", "m", "e", "r", "_", "i", "d">>, type |-> <<"N", "U", "M", "B", "E", "R", "(", "3", "8", ",", "2", ")">>],
     [name |-> <<"t", "o", "t", "a", "l", "_", "a", "m", "o", "u", "n", "t">>, type |-> <<"N", "U", "M", "B", "E", "R", "(", "3", "8", ",", "2", ")">>],
     [name |-> <<"n", "o", "t", "e", "s">>, type |-> <<"V", "A", "R", "C", "H", "A", "R", "(", "1", "6", "7", "7", "7", "2", "1", "6", ")">>]}

\* what get_columns can return: rows of the catalog, no column twice
DescribedColumns ==
    {cols \in SeqsUpTo(DescribeCatalog, MaxDescribeColumns) :
        \A i, j \in 1..Len(cols) : cols[i] = cols[j] => i = j}

\* what a query for one text can yield
TextResults(text) == {QueryError, NoResult, TextResult(<<>>), TextResult(text)}

\* what AI_DESCRIBE_COLUMNS can yield for the columns: an error, nothing,
\* a string, or a dict (empty, for every column, for customer_id only)
ColumnAiResults(cols) ==
    {QueryError, NoResult, TextResult(<<"{", "}">>)}
    \cup {DictResult([i \in 1..Len(keys) |-> <<keys[i], <<"A", "I", ":", " ">> \o keys[i]>>]) :
              keys \in {<<>>, ColumnNamesOf(cols), <<<<"c", "u", "s", "t", "o", "m", "e", "r", "_", "i", "d">>>>}}

\* what the comment query can yield for the columns: an error, or one row
\* per column, with a comment or without
ColumnCommentResults(cols) ==
    {QueryError}
    \cup {RowsResult([i \in 1..Len(cols) |->
                          <<cols[i].name,
                            IF i \in commented
                            THEN <<"C", "o", "m", "m", "e", "n", "t", " ", "o", "n", " ">> \o cols[i].name ELSE <<>>>>]) :
              commented \in SUBSET (1..Len(cols))}

\* what the sampling query can fetch while a table model is built
DescribeRows == {<<>>, <<<<IntItem(7)>>>>, <<<<StrItem(<<"A", "c", "m", "e">>)>>>>}

TableNames == {<<"o", "r", "d", "e", "r", "s">>, <<"d", "i", "m", "_", "c", "u", "s", "t", "o", "m", "e", "r", "_", "s", "k">>}

----------------------------------------------------------------------------
(* The calls                                                               *)

\* the DescriptionGenerator's methods have not been called
GeneratorIdle ==
    /\ column_name = <<>>
    /\ data_type = <<>>
    /\ sample_data = <<>>
    /\ analysis = EmptyAnalysis
    /\ nlp_calls = 0
    /\ description = <<>>
    /\ cleaned = <<>>
    /\ table_name = <<>>
    /\ columns = <<>>
    /\ important_list = <<>>
    /\ details_list = <<>>
    /\ table_description = <<>>

\* no description source was consulted and no table model was built
SourcesIdle ==
    /\ ai_table = NoResult
    /\ table_comment = NoResult
    /\ ai_columns = NoResult
    /\ column_comments = NoResult
    /\ table_columns = <<>>
    /\ sampled = <<>>
    /\ table_model = <<>>

\* no query was made, the connector is as __init__ leaves it, main has
\* not run
PipelineIdle ==
    /\ query = "rows"
    /\ rows = <<>>
    /\ conn = None
    /\ close_calls = 0
    /\ exit_code = <<>>
    /\ written = FALSE
    /\ tables = 0
    /\ processed = 0
    /\ pending = "none"
    /\ error = "none"
    /\ SourcesIdle

\* a call _analyze_sample_data(sample_data) about to be made
InitAnalyze ==
    /\ op = "analyze"
    /\ pc = "start"
    /\ sample_data \in SeqsUpTo(AnalyzeItems, MaxSample)
                        \cup SeqsUpTo(TextItems, MaxTextSample)
    /\ column_name = <<>>
    /\ data_type = <<>>
    /\ analysis = EmptyAnalysis
    /\ nlp_calls = 0
    /\ description = <<>>
    /\ cleaned = <<>>
    /\ table_name = <<>>
    /\ columns = <<>>
    /\ important_list = <<>>
    /\ details_list = <<>>
    /\ table_description = <<>>
    /\ PipelineIdle

\* a call generate_column_description(column_name, data_type, sample_data)
InitColumn ==
    /\ op = "column"
    /\ pc = "start"
    /\ column_name \in ColumnNames
    /\ data_type \in DataTypes
    /\ sample_data \in SeqsUpTo(ColumnItems, MaxColumnSample)
    /\ analysis = EmptyAnalysis
    /\ nlp_calls = 0
    /\ description = <<>>
    /\ cleaned = <<>>
    /\ table_name = <<>>
    /\ columns = <<>>
    /\ important_list = <<>>
    /\ details_list = <<>>
    /\ table_description = <<>>
    /\ PipelineIdle

\* a call generate_table_description(table_name, columns)
InitTable ==
    /\ op = "table"
    /\ pc = "start"
    /\ table_name \in TableNames
    /\ columns \in SeqsUpTo(TableColumnNames, MaxColumns)
    /\ column_name = <<>>
    /\ data_type = <<>>
    /\ sample_data = <<>>
    /\ analysis = EmptyAnalysis
    /\ nlp_calls = 0
    /\ description = <<>>
    /\ cleaned = <<>>
    /\ important_list = <<>>
    /\ details_list = <<>>
    /\ table_description = <<>>
    /\ PipelineIdle

\* a call _clean_column_name(column_name)
InitClean ==
    /\ op = "clean"
    /\ pc = "start"
    /\ column_name \in CleanNames
    /\ data_type = <<>>
    /\ sample_data = <<>>
    /\ analysis = EmptyAnalysis
    /\ nlp_calls = 0
    /\ description = <<>>
    /\ cleaned = <<>>
    /\ table_name = <<>>
    /\ columns = <<>>
    /\ important_list = <<>>
    /\ details_list = <<>>
    /\ table_description = <<>>
    /\ PipelineIdle

\* a call generate_table_description(table_name, columns) on the columns of
\* ScanColumnNames
InitScan ==
    /\ op = "table"
    /\ pc = "start"
    /\ table_name \in TableNames
    /\ columns \in SeqsUpTo(ScanColumnNames, MaxScanColumns)
    /\ column_name = <<>>
    /\ data_type = <<>>
    /\ sample_data = <<>>
    /\ analysis = EmptyAnalysis
    /\ nlp_calls = 0
    /\ description = <<>>
    /\ cleaned = <<>>
    /\ important_list = <<>>
    /\ details_list = <<>>
    /\ table_description = <<>>
    /\ PipelineIdle

\* get_column_descriptions reaches a column without an existing comment;
\* the connection is open and the sampling query is about to be made
InitFetch ==
    /\ op = "fetch"
    /\ pc = "start"
    /\ column_name \in ColumnNames
    /\ data_type \in DataTypes
    /\ \/ query = "error" /\ rows = <<>>
       \/ query = "rows" /\ rows \in FetchedRows
    /\ conn = "open"
    /\ sample_data = <<>>
    /\ analysis = EmptyAnalysis
    /\ nlp_calls = 0
    /\ description = <<>>
    /\ cleaned = <<>>
    /\ table_name = <<>>
    /\ columns = <<>>
    /\ important_list = <<>>
    /\ details_list = <<>>
    /\ table_description = <<>>
    /\ close_calls = 0
    /\ exit_code = <<>>
    /\ written = FALSE
    /\ tables = 0
    /\ processed = 0
    /\ pending = "none"
    /\ error = "none"
    /\ SourcesIdle

\* generate_model_yaml reaches a table: the connection is open and the
\* table's descriptions are about to be fetched
InitDescribe ==
    /\ op = "describe"
    /\ pc = "start"
    /\ table_name = <<"o", "r", "d", "e", "r", "s">>
    /\ table_columns \in DescribedColumns
    /\ ai_table \in TextResults(<<"A", "I", " ", "t", "a", "b", "l", "e", " ", "s", "u", "m", "m", "a", "r", "y">>)
    /\ table_comment \in TextResults(<<"O", "r", "d", "e", "r", "s", " ", "p", "l", "a", "c", "e", "d", " ", "b", "y", " ", "c", "u", "s", "t", "o", "m", "e", "r", "s">>)
    /\ ai_columns \in ColumnAiResults(table_columns)
    /\ column_comments \in ColumnCommentResults(table_columns)
    /\ \/ query = "error" /\ rows = <<>>
       \/ query = "rows" /\ rows \in DescribeRows
    /\ conn = "open"
    /\ sampled = <<>>
    /\ table_model = <<>>
    /\ column_name = <<>>
    /\ data_type = <<>>
    /\ sample_data = <<>>
    /\ analysis = EmptyAnalysis
    /\ nlp_calls = 0
    /\ description = <<>>
    /\ cleaned = <<>>
    /\ columns = <<>>
    /\ important_list = <<>>
    /\ details_list = <<>>
    /\ table_description = <<>>
    /\ close_calls = 0
    /\ exit_code = <<>>
    /\ written = FALSE
    /\ tables = 0
    /\ processed = 0
    /\ pending = "none"
    /\ error = "none"

\* main is entered: the connector does not exist yet
InitMain ==
    /\ op = "main"
    /\ pc = "start"
    /\ GeneratorIdle
    /\ PipelineIdle

Init ==
    \/ InitAnalyze \/ InitColumn \/ InitTable \/ InitClean \/ InitScan
    \/ InitFetch \/ InitMain \/ InitDescribe

\* _clean_column_name runs to its return
CleanColumnName ==
    /\ op = "clean"
    /\ pc = "start"
    /\ cleaned' = _clean_column_name(column_name)
    /\ pc' = "done"
    /\ UNCHANGED <<pipelineVars, op, column_name, data_type, sample_data, analysis, nlp_calls,
                   description, table_name, columns, important_list, details_list,
                   table_description>>

\* _analyze_sample_data runs to its return
Analyze ==
    /\ op = "analyze"
    /\ pc = "start"
    /\ \E ents \in (IF CallsNlp(sample_data) THEN NerOutcomes ELSE {<<>>}) :
           analysis' = _analyze_sample_data(sample_data, ents)
    /\ nlp_calls' = nlp_calls + (IF CallsNlp(sample_data) THEN 1 ELSE 0)
    /\ pc' = "done"
    /\ UNCHANGED <<pipelineVars, op, column_name, data_type, sample_data, description,
                   cleaned, table_name, columns, important_list, details_list,
                   table_description>>

\* generate_column_description runs to its return
GenerateColumnDescription ==
    /\ op = "column"
    /\ pc = "start"
    /\ \E ents \in (IF CallsNlp(sample_data) THEN NerOutcomes ELSE {<<>>}) :
           /\ analysis' = _analyze_sample_data(sample_data, ents)
           /\ description' = generate_column_description(column_name, data_type,
                                                         sample_data, ents)
    /\ nlp_calls' = nlp_calls + (IF CallsNlp(sample_data) THEN 1 ELSE 0)
    /\ cleaned' = _clean_column_name(column_name)
    /\ pc' = "done"
    /\ UNCHANGED <<pipelineVars, op, column_name, data_type, sample_data, table_name, columns,
                   important_list, details_list, table_description>>

\* generate_table_description runs to its return
GenerateTableDescription ==
    /\ op = "table"
    /\ pc = "start"
    /\ table_description' \in generate_table_description(table_name, columns)
    /\ cleaned' = _clean_column_name(table_name)
    /\ important_list' = ImportantColumns(columns)
    /\ details_list' = Details(columns)
    /\ pc' = "done"
    /\ UNCHANGED <<pipelineVars, op, column_name, data_type, sample_data, analysis, nlp_calls,
                   description, table_name, columns>>

\* one pass of the loop body of get_column_descriptions (snowflake.py
\* 256-273) for a column without an existing comment: the sample is fetched
\* and the column is described from it
ProcessColumn ==
    /\ op = "fetch"
    /\ pc = "start"
    /\ LET fetched == get_sample_data(query, rows)
       IN IF fetched.raised
          THEN /\ pc' = "raised"
               /\ UNCHANGED <<sample_data, analysis, description, nlp_calls, cleaned>>
          ELSE /\ sample_data' = fetched.value
               /\ \E ents \in (IF CallsNlp(fetched.value) THEN NerOutcomes ELSE {<<>>}) :
                      /\ analysis' = _analyze_sample_data(fetched.value, ents)
                      /\ description' = generate_column_description(
                                            column_name, data_type, fetched.value, ents)
               /\ nlp_calls' = nlp_calls + (IF CallsNlp(fetched.value) THEN 1 ELSE 0)
               /\ cleaned' = _clean_column_name(column_name)
               /\ pc' = "done"
    /\ UNCHANGED <<pipelineVars, op, column_name, data_type, table_name, columns,
                   important_list, details_list, table_description>>

\* one pass of the loop body of generate_model_yaml (yaml_generator.py
\* 28-55): the table description and the column descriptions are taken from
\* their sources and the table model is built
BuildTableModel ==
    /\ op = "describe"
    /\ pc = "start"
    /\ LET sample == get_sample_data(query, rows).value
       IN \E ents \in (IF CallsNlp(sample) THEN NerOutcomes ELSE {<<>>}) :
              LET found == get_column_descriptions(ai_columns, column_comments,
                                                   table_columns, query, rows, ents)
              IN /\ \E text \in get_table_description(ai_table, table_comment,
                                                       table_name, table_columns) :
                        table_model' = TableModel(table_name, table_columns, text,
                                                  found.descriptions)
                 /\ sampled' = found.sampled
                 /\ nlp_calls' = nlp_calls
                                   + (IF CallsNlp(sample) THEN Len(found.sampled) ELSE 0)
    /\ pc' = "done"
    /\ UNCHANGED <<op, column_name, data_type, sample_data, analysis, description,
                   cleaned, table_name, columns, important_list, details_list,
                   table_description, query, rows, conn, close_calls, exit_code,
                   written, tables, processed, pending, error, ai_table,
                   table_comment, ai_columns, column_comments, table_columns>>

\* main, lines 42-58: the environment, the configuration, the output path
\* and the tests are loaded and the connector is built; any of it may raise
LoadConfiguration ==
    /\ op = "main"
    /\ pc = "start"
    /\ \E ok \in BOOLEAN :
           IF ok THEN pc' = "connect" /\ error' = error
           ELSE pc' = "except" /\ error' = "config"
    /\ UNCHANGED <<generatorVars, sourceVars, op, query, rows, conn, close_calls, exit_code,
                   written, tables, processed, pending>>

\* main, line 59: connector.connect() sets conn or raises
Connect ==
    /\ op = "main"
    /\ pc = "connect"
    /\ \E ok \in BOOLEAN :
           IF ok THEN pc' = "get_tables" /\ conn' = "open" /\ error' = error
           ELSE pc' = "except" /\ conn' = conn /\ error' = "connect"
    /\ UNCHANGED <<generatorVars, sourceVars, op, query, rows, close_calls, exit_code,
                   written, tables, processed, pending>>

\* main, lines 63-70: get_tables raises, finds no table (return 0) or
\* finds some
GetTables ==
    /\ op = "main"
    /\ pc = "get_tables"
    /\ \/ /\ pc' = "finally"
          /\ pending' = "raise"
          /\ error' = "get_tables"
          /\ UNCHANGED tables
       \/ \E n \in 0..MaxTables :
              /\ tables' = n
              /\ IF n = 0
                 THEN pc' = "finally" /\ pending' = "return 0"
                 ELSE pc' = "get_table_description" /\ pending' = pending
              /\ error' = error
    /\ UNCHANGED <<generatorVars, sourceVars, op, query, rows, conn, close_calls, exit_code,
                   written, processed>>

\* generate_model_yaml, line 29: get_table_description returns or raises
GetTableDescription ==
    /\ op = "main"
    /\ pc = "get_table_description"
    /\ \/ pc' = "get_columns" /\ pending' = pending /\ error' = error
       \/ pc' = "finally" /\ pending' = "raise" /\ error' = "get_table_description"
    /\ UNCHANGED <<generatorVars, sourceVars, op, query, rows, conn, close_calls, exit_code,
                   written, tables, processed>>

\* generate_model_yaml, line 30: get_columns returns or raises
GetColumns ==
    /\ op = "main"
    /\ pc = "get_columns"
    /\ \/ pc' = "get_column_descriptions" /\ pending' = pending /\ error' = error
       \/ pc' = "finally" /\ pending' = "raise" /\ error' = "get_columns"
    /\ UNCHANGED <<generatorVars, sourceVars, op, query, rows, conn, close_calls, exit_code,
                   written, tables, processed>>

\* generate_model_yaml, lines 31-55: the column descriptions are fetched
\* and the table's model is appended; after the last table the YAML is
\* written
GetColumnDescriptions ==
    /\ op = "main"
    /\ pc = "get_column_descriptions"
    /\ \/ /\ processed' = processed + 1
          /\ pc' = IF processed + 1 = tables THEN "write" ELSE "get_table_description"
          /\ pending' = pending
          /\ error' = error
       \/ /\ pc' = "finally"
          /\ pending' = "raise"
          /\ error' = "get_column_descriptions"
          /\ UNCHANGED processed
    /\ UNCHANGED <<generatorVars, sourceVars, op, query, rows, conn, close_calls, exit_code,
                   written, tables>>

\* main, lines 79-86: write_yaml_file returns True once the file is
\* written, or False when something failed, before or after the file was
\* opened
WriteYamlFile ==
    /\ op = "main"
    /\ pc = "write"
    /\ \/ written' = TRUE /\ pending' = "return 0"
       \/ written' \in BOOLEAN /\ pending' = "return 1"
    /\ pc' = "finally"
    /\ UNCHANGED <<generatorVars, sourceVars, op, query, rows, conn, close_calls, exit_code,
                   tables, processed, error>>

\* main, lines 88-90: the finally clause calls connector.close(), then the
\* pending return or exception takes effect
Finally ==
    /\ op = "main"
    /\ pc = "finally"
    /\ conn' = close(conn)
    /\ close_calls' = close_calls + 1
    /\ IF pending = "raise"
       THEN pc' = "except" /\ exit_code' = exit_code
       ELSE pc' = "done" /\ exit_code' = <<IF pending = "return 0" THEN 0 ELSE 1>>
    /\ UNCHANGED <<generatorVars, sourceVars, op, query, rows, written, tables, processed,
                   pending, error>>

\* main, lines 92-94: the exception is logged and main returns 1
Except ==
    /\ op = "main"
    /\ pc = "except"
    /\ exit_code' = <<1>>
    /\ pc' = "done"
    /\ UNCHANGED <<generatorVars, sourceVars, op, query, rows, conn, close_calls, written,
                   tables, processed, pending, error>>

\* the steps of main
Main ==
    \/ LoadConfiguration
    \/ Connect
    \/ GetTables
    \/ GetTableDescription
    \/ GetColumns
    \/ GetColumnDescriptions
    \/ WriteYamlFile
    \/ Finally
    \/ Except

Next ==
    \/ Analyze
    \/ GenerateColumnDescription
    \/ GenerateTableDescription
    \/ CleanColumnName
    \/ ProcessColumn
    \/ BuildTableModel
    \/ Main

Spec == Init /\ [][Next]_vars

SpecAnalyze == InitAnalyze /\ [][Analyze]_vars

SpecColumn == InitColumn /\ [][GenerateColumnDescription]_vars

SpecTable == InitTable /\ [][GenerateTableDescription]_vars

SpecScan == InitScan /\ [][GenerateTableDescription]_vars

SpecDescribe == InitDescribe /\ [][BuildTableModel]_vars

SpecFetch == InitFetch /\ [][ProcessColumn]_vars

\* main is sequential code: a step that is enabled is taken
SpecMain == InitMain /\ [][Main]_vars /\ WF_vars(Main)

SpecClean == InitClean /\ [][CleanColumnName]_vars

----------------------------------------------------------------------------
(* Properties of generate_column_description                               *)

ColumnDone == op = "column" /\ pc = "done"

\* C1: a column whose lower-cased name is one of the eight pipeline-metadata
\* names gets that name's fixed sentence, whatever its declared type and
\* sample (the exact-match rule is tried before every pattern rule).
C1_ExactMatchFirst ==
    (ColumnDone /\ IsSpecialName(lower(column_name)))
        => description = SpecialSentence(lower(column_name))

\* the sentences the date rule can produce for a cleaned name
DateSentences(clean_name) ==
    {<<"D", "a", "t", "e", " ", "w", "h", "e", "n", " ", "t", "h", "e", " ", "r", "e", "c", "o", "r", "d", " ", "w", "a", "s", " ", "c", "r", "e", "a", "t", "e", "d">>,
     <<"D", "a", "t", "e", " ", "w", "h", "e", "n", " ", "t", "h", "e", " ", "r", "e", "c", "o", "r", "d", " ", "w", "a", "s", " ", "l", "a", "s", "t", " ", "u", "p", "d", "a", "t", "e", "d">>,
     <<"D", "a", "t", "e", " ", "f", "r", "o", "m", " ", "w", "h", "i", "c", "h", " ", "t", "h", "i", "s", " ", "r", "e", "c", "o", "r", "d", " ", "i", "s", " ", "v", "a", "l", "i", "d">>,
     <<"D", "a", "t", "e", " ", "u", "n", "t", "i", "l", " ", "w", "h", "i", "c", "h", " ", "t", "h", "i", "s", " ", "r", "e", "c", "o", "r", "d", " ", "i", "s", " ", "v", "a", "l", "i", "d">>,
     <<"D", "a", "t", "e", " ", "o", "f", " ", "b", "i", "r", "t", "h">>,
     <<"D", "a", "t", "e", " ", "a", "s", "s", "o", "c", "i", "a", "t", "e", "d", " ", "w", "i", "t", "h", " ">> \o clean_name}

\* text is head alone, or head followed by a parenthesis opened by opening
HeadWithOptional(text, head, opening) ==
    \/ text = head
    \/ /\ StartsWith(text, head \o opening)
       /\ text[Len(text)] = ")"

\* the sentences the declared-type fallback can produce for a cleaned name
FallbackSentence(text, clean_name) ==
    \/ text = clean_name
    \/ HeadWithOptional(text, <<"T", "e", "x", "t", " ", "f", "i", "e", "l", "d", " ", "c", "o", "n", "t", "a", "i", "n", "i", "n", "g", " ">> \o clean_name, <<" ", "(", "e", ".", "g", ".", ",", " ">>)
    \/ text = <<"N", "u", "m", "e", "r", "i", "c", " ", "v", "a", "l", "u", "e", " ", "r", "e", "p", "r", "e", "s", "e", "n", "t", "i", "n", "g", " ">> \o clean_name
    \/ text = <<"D", "a", "t", "e", "/", "t", "i", "m", "e", " ", "v", "a", "l", "u", "e", " ", "f", "o", "r", " ">> \o clean_name
    \/ text = <<"B", "o", "o", "l", "e", "a", "n", " ", "f", "l", "a", "g", " ", "i", "n", "d", "i", "c", "a", "t", "i", "n", "g", " ">> \o clean_name

\* C2: the description is the sentence of the first rule the name matches
\* in the order identifier, date, amount, count/quantity, flag, declared
\* type, and nothing of a later rule is added to it.
C2_FirstMatchWins ==
    ColumnDone =>
        LET n == lower(column_name)
            c == _clean_column_name(column_name)
        IN CASE IsIdentifierName(n) ->
                    description \in {<<"P", "r", "i", "m", "a", "r", "y", " ", "i", "d", "e", "n", "t", "i", "f", "i", "e", "r", " ", "f", "o", "r", " ">> \o c,
                                     <<"F", "o", "r", "e", "i", "g", "n", " ", "k", "e", "y", " ", "r", "e", "f", "e", "r", "e", "n", "c", "e", " ", "t", "o", " ">> \o c,
                                     <<"I", "d", "e", "n", "t", "i", "f", "i", "e", "r", " ", "f", "o", "r", " ">> \o c}
             [] ~IsIdentifierName(n) /\ IsDateName(n) ->
                    description \in DateSentences(c)
             [] ~IsIdentifierName(n) /\ ~IsDateName(n) /\ IsAmountName(n) ->
                    HeadWithOptional(description, <<"M", "o", "n", "e", "t", "a", "r", "y", " ", "a", "m", "o", "u", "n", "t", " ", "f", "o", "r", " ">> \o c,
                                     <<" ", "(", "r", "a", "n", "g", "e", "s", " ", "f", "r", "o", "m", " ">>)
             [] /\ ~IsIdentifierName(n) /\ ~IsDateName(n) /\ ~IsAmountName(n)
                /\ IsCountName(n) ->
                    description = <<"C", "o", "u", "n", "t", " ", "o", "r", " ", "q", "u", "a", "n", "t", "i", "t", "y", " ", "o", "f", " ">> \o c
             [] /\ ~IsIdentifierName(n) /\ ~IsDateName(n) /\ ~IsAmountName(n)
                /\ ~IsCountName(n) /\ IsFlagName(n) ->
                    HeadWithOptional(description, <<"F", "l", "a", "g", " ", "i", "n", "d", "i", "c", "a", "t", "i", "n", "g", " ">> \o c,
                                     <<" ", "(", "p", "o", "s", "s", "i", "b", "l", "e", " ", "v", "a", "l", "u", "e", "s", ":", " ">>)
             [] OTHER ->
                    IsSpecialName(n) \/ FallbackSentence(description, c)

\* C2 witness: 'date_id' matches the identifier and the date pattern and is
\* described by the identifier rule.
C2_Witness ==
    /\ ColumnDone
    /\ column_name = <<"d", "a", "t", "e", "_", "i", "d">>
    /\ IsIdentifierName(lower(column_name)) /\ IsDateName(lower(column_name))
    /\ description = <<"I", "d", "e", "n", "t", "i", "f", "i", "e", "r", " ", "f", "o", "r", " ", "D", "a", "t", "e", " ", "i", "d", "e", "n", "t", "i", "f", "i", "e", "r">>

----------------------------------------------------------------------------
(* Properties of generate_table_description                                *)

TableDone == op = "table" /\ pc = "done"

\* the cleaned entities of a column list, once each, in order of first
\* occurrence among the columns
EntitiesInColumnOrder(cols) ==
    LET important == ImportantColumns(cols)
    IN FirstSeen([i \in 1..Len(important) |-> _clean_column_name(important[i])])

\* C3: the entities are named in order of first occurrence among the
\* columns, each once, so the description is a function of the column list;
\* for customer_id, customer_name, order_date it names Customer, then Order.
C3_FirstOccurrenceOrder ==
    TableDone =>
        /\ table_description =
               EntitySentence(_clean_column_name(table_name), ImportantColumns(columns),
                              EntitiesInColumnOrder(columns))
                   \o DetailsClause(columns)
        /\ columns = <<<<"c", "u", "s", "t", "o", "m", "e", "r", "_", "i", "d">>, <<"c", "u", "s", "t", "o", "m", "e", "r", "_", "n", "a", "m", "e">>, <<"o", "r", "d", "e", "r", "_", "d", "a", "t", "e">>>>
               => table_description =
                      <<"C", "o", "n", "t", "a", "i", "n", "s", " ", "i", "n", "f", "o", "r", "m", "a", "t", "i", "o", "n", " ", "a", "b", "o", "u", "t", " ", "C", "u", "s", "t", "o", "m", "e", "r", ",", " ", "O", "r", "d", "e", "r", " ", "i", "n", "c", "l", "u", "d", "i", "n", "g", " ", "i", "d", "e", "n", "t", "i", "f", "i", "e", "r", "s", ",", " ", "n", "a", "m", "e", "s", ",", " ", "d", "a", "t", "e", "s">>

\* C4 as stated: with more than 3 distinct entities the description starts
\* with the base sentence 'Contains information related to {table}'; with 1
\* to 3 it starts with 'Contains information about ' and the entities.
C4_GenericBaseSentence ==
    TableDone =>
        LET unique == UniqueEntities(ImportantColumns(columns))
            distinct == Cardinality(unique)
        IN /\ distinct > 3
                  => StartsWith(table_description,
                                <<"C", "o", "n", "t", "a", "i", "n", "s", " ", "i", "n", "f", "o", "r", "m", "a", "t", "i", "o", "n", " ", "r", "e", "l", "a", "t", "e", "d", " ", "t", "o", " ">>
                                    \o _clean_column_name(table_name))
           /\ distinct \in 1..3
                  => \E order \in Orderings(unique) :
                         StartsWith(table_description,
                                    <<"C", "o", "n", "t", "a", "i", "n", "s", " ", "i", "n", "f", "o", "r", "m", "a", "t", "i", "o", "n", " ", "a", "b", "o", "u", "t", " ">> \o Join(<<",", " ">>, order))

\* C4 amended: with more than 3 distinct entities the description starts
\* with 'Contains various information related to {table}', which is not the
\* sentence of a table without entities ('Contains information related to
\* {table}'); with 1 to 3 it starts with 'Contains information about ' and
\* the comma-joined entities.
C4_VariousSentence ==
    TableDone =>
        LET unique == UniqueEntities(ImportantColumns(columns))
            distinct == Cardinality(unique)
        IN /\ distinct > 3
                  => StartsWith(table_description,
                                <<"C", "o", "n", "t", "a", "i", "n", "s", " ", "v", "a", "r", "i", "o", "u", "s", " ", "i", "n", "f", "o", "r", "m", "a", "t", "i", "o", "n", " ", "r", "e", "l", "a", "t", "e", "d", " ", "t", "o", " ">>
                                    \o _clean_column_name(table_name))
           /\ distinct = 0
                  => StartsWith(table_description,
                                <<"C", "o", "n", "t", "a", "i", "n", "s", " ", "i", "n", "f", "o", "r", "m", "a", "t", "i", "o", "n", " ", "r", "e", "l", "a", "t", "e", "d", " ", "t", "o", " ">>
                                    \o _clean_column_name(table_name))
           /\ distinct \in 1..3
                  => \E order \in Orderings(unique) :
                         StartsWith(table_description,
                                    <<"C", "o", "n", "t", "a", "i", "n", "s", " ", "i", "n", "f", "o", "r", "m", "a", "t", "i", "o", "n", " ", "a", "b", "o", "u", "t", " ">> \o Join(<<",", " ">>, order))

\* C4 witness: a described table with more than 3 distinct entities.
C4_Witness ==
    /\ TableDone
    /\ Cardinality(UniqueEntities(ImportantColumns(columns))) > 3
    /\ StartsWith(table_description, <<"C", "o", "n", "t", "a", "i", "n", "s", " ", "v", "a", "r", "i", "o", "u", "s", " ", "i", "n", "f", "o", "r", "m", "a", "t", "i", "o", "n", " ", "r", "e", "l", "a", "t", "e", "d", " ", "t", "o", " ">>)

\* the bucket phrases in their fixed order
BucketPhrases ==
    <<<<"id", <<"i", "d", "e", "n", "t", "i", "f", "i", "e", "r", "s">>>>, <<"name", <<"n", "a", "m", "e", "s">>>>, <<"date", <<"d", "a", "t", "e", "s">>>>,
      <<"amount", <<"a", "m", "o", "u", "n", "t", "s">>>>, <<"status", <<"s", "t", "a", "t", "u", "s", " ", "i", "n", "f", "o", "r", "m", "a", "t", "i", "o", "n">>>>>>

\* the phrases of the buckets the columns fired, in the fixed order
FiredPhrases(cols) ==
    LET branches == {ColumnBranch(lower(cols[i])) : i \in 1..Len(cols)}
        fired == SelectSeq(BucketPhrases, LAMBDA b : b[1] \in branches)
    IN [i \in 1..Len(fired) |-> fired[i][2]]

\* the sentences the entity part of the description can be
EntitySentences(table, cols) ==
    LET clean_name == _clean_column_name(table)
        important == ImportantColumns(cols)
    IN {EntitySentence(clean_name, important, order) :
            order \in Orderings(UniqueEntities(important))}

----------------------------------------------------------------------------
(* Properties of _analyze_sample_data                                      *)

AnalyzeDone == op = "analyze" /\ pc = "done"

\* the positions of the sample holding an item that is not None
Present == {i \in 1..Len(sample_data) : sample_data[i].t # "NoneType"}

\* the sample holds an int, float or Decimal item
HasNumericItem == \E i \in Present : sample_data[i].t \in {"int", "float", "Decimal"}

\* the sample holds a text item
HasTextItem == \E i \in Present : sample_data[i].t \in {"str", "string"}

\* the profile carries both a numeric range and entity categories
RangeAndEntities == analysis.stats # <<>> /\ analysis.entity_types # <<>>

C7_EmptySample ==
    (AnalyzeDone /\ sample_data = <<>>) =>
        /\ analysis.type = None
        /\ analysis.stats = <<>>
        /\ analysis.common_values = <<>>
        /\ analysis.entity_types = <<>>
        /\ nlp_calls = 0

\* C7 witness: the empty sample has been analysed.
C7_Witness == AnalyzeDone /\ sample_data = <<>> /\ analysis.type = None

\* the values of the numeric items float() accepts
CoercedValues ==
    {sample_data[i].v :
        i \in {j \in Present : sample_data[j].t \in {"int", "float", "Decimal"}
                                 /\ sample_data[j].ok}}

\* how many items of the sample have the given type name
TypeTally(t) == Cardinality({i \in Present : sample_data[i].t = t})

\* how many items of the sample have the given string form
FormTally(form) == Cardinality({i \in Present : str(sample_data[i]) = form})

\* C8: with a numeric item in the sample, min and max are the least and the
\* greatest value of the coerced numeric items; items left out of the range
\* are still counted by the dominant type and the frequent-value counts.
C8_TrueMinMax ==
    (AnalyzeDone /\ HasNumericItem) =>
        /\ IF CoercedValues = {} THEN analysis.stats = <<>>
           ELSE /\ analysis.stats # <<>>
                /\ analysis.stats.min \in CoercedValues
                /\ analysis.stats.max \in CoercedValues
                /\ \A x \in CoercedValues :
                       analysis.stats.min <= x /\ x <= analysis.stats.max
        /\ \A i \in Present : TypeTally(sample_data[i].t) <= TypeTally(analysis.type)
        /\ \A k \in 1..Len(analysis.common_values) :
               analysis.common_values[k][2] = FormTally(analysis.common_values[k][1])

\* C8 witness: a sample with a rejected Decimal and two different coerced
\* values has been analysed.
C8_Witness ==
    /\ AnalyzeDone
    /\ \E i \in Present : ~sample_data[i].ok
    /\ analysis.stats # <<>>
    /\ analysis.stats.min < analysis.stats.max

\* the distinct string forms of the sample
Forms == {str(sample_data[i]) : i \in Present}

\* the position at which a string form first appears
FirstAt(form) ==
    CHOOSE i \in Present :
        /\ str(sample_data[i]) = form
        /\ \A j \in Present : j < i => str(sample_data[j]) # form

\* form a ranks ahead of form b: higher count, or equal count and seen first
RanksAhead(a, b) ==
    \/ FormTally(a) > FormTally(b)
    \/ FormTally(a) = FormTally(b) /\ FirstAt(a) < FirstAt(b)

\* C9: for a text sample the frequent-value list holds the (at most 5) best
\* ranked distinct string forms with their exact counts, higher counts first
\* and equal counts in order of first appearance; otherwise it is absent.
C9_TopFive ==
    AnalyzeDone =>
        LET cv == analysis.common_values
            listed == {cv[k][1] : k \in 1..Len(cv)}
        IN IF analysis.type \in {"str", "string"}
           THEN /\ Len(cv) <= 5
                /\ Len(cv) = IF Cardinality(Forms) < 5 THEN Cardinality(Forms) ELSE 5
                /\ \A k \in 1..Len(cv) :
                       cv[k][1] \in Forms /\ cv[k][2] = FormTally(cv[k][1])
                /\ \A k, l \in 1..Len(cv) : k < l => RanksAhead(cv[k][1], cv[l][1])
                /\ \A form \in Forms \ listed :
                       \A k \in 1..Len(cv) : RanksAhead(cv[k][1], form)
           ELSE cv = <<>>

\* C9 witness: a text sample with more than 5 distinct string forms, cut to
\* the 5 seen first.
C9_Witness ==
    /\ AnalyzeDone
    /\ analysis.type = "str"
    /\ Cardinality(Forms) > 5
    /\ Len(analysis.common_values) = 5

----------------------------------------------------------------------------
(* Properties of the amount rule                                           *)

\* the column name reaches the amount rule of the chain
ReachesAmountRule ==
    LET n == lower(column_name)
    IN ~IsIdentifierName(n) /\ ~IsDateName(n) /\ IsAmountName(n)

\* the renderings of a number of thousandths with exactly two decimals: a
\* sign, the integer digits, a point and two digits, denoting a number of
\* hundredths no further than half a hundredth from the value
TwoDecimals(m) ==
    {Sign(m) \o NatStr(q \div 100) \o <<".">>
         \o <<Digits[((q \div 10) % 10) + 1], Digits[(q % 10) + 1]>> :
        q \in {h \in {Abs(m) \div 10, (Abs(m) \div 10) + 1} :
                 10 * h - Abs(m) <= 5 /\ Abs(m) - 10 * h <= 5}}

\* C10: the amount rule returns 'Monetary amount for {cleaned name}' and
\* appends ' (ranges from X to Y)', X and Y being the profile minimum and
\* maximum with exactly two decimals, exactly when the profile carries a
\* numeric range, that is when the sample holds a coerced numeric item.
C10_AmountRange ==
    (ColumnDone /\ ReachesAmountRule) =>
        LET head == <<"M", "o", "n", "e", "t", "a", "r", "y", " ", "a", "m", "o", "u", "n", "t", " ", "f", "o", "r", " ">> \o _clean_column_name(column_name)
        IN /\ (analysis.stats # <<>>) <=> (CoercedValues # {})
           /\ ~HasNumericItem => description = head
           /\ IF analysis.stats = <<>> THEN description = head
              ELSE \E x \in TwoDecimals(analysis.stats.min),
                      y \in TwoDecimals(analysis.stats.max) :
                       description = head \o <<" ", "(", "r", "a", "n", "g", "e", "s", " ", "f", "r", "o", "m", " ">> \o x \o <<" ", "t", "o", " ">> \o y \o <<")">>

\* C10 witness: an amount column described with a range whose ends differ.
C10_Witness ==
    /\ ColumnDone
    /\ ReachesAmountRule
    /\ analysis.stats # <<>>
    /\ analysis.stats.min < analysis.stats.max
    /\ EndsWith(description, <<" ", "t", "o", " ", "1", "0", "0", ".", "0", "0", ")">>)

----------------------------------------------------------------------------
(* Properties of the fallback of generate_column_description               *)

\* the column name matches none of the name rules of the chain
NoNameRule ==
    LET n == lower(column_name)
    IN /\ ~IsIdentifierName(n) /\ ~IsDateName(n) /\ ~IsAmountName(n)
       /\ ~IsCountName(n) /\ ~IsFlagName(n) /\ ~IsSpecialName(n)

\* the words by which the declared-type fallback recognises its families
TypeFamilyWords ==
    {<<"v", "a", "r", "c", "h", "a", "r">>, <<"c", "h", "a", "r">>, <<"s", "t", "r", "i", "n", "g">>, <<"t", "e", "x", "t">>,
     <<"i", "n", "t">>, <<"n", "u", "m", "b", "e", "r">>, <<"d", "e", "c", "i", "m", "a", "l">>, <<"f", "l", "o", "a", "t">>,
     <<"d", "a", "t", "e">>, <<"t", "i", "m", "e">>, <<"b", "o", "o", "l">>}

\* the declared type belongs to none of the four families
UnmappedType == \A w \in TypeFamilyWords : ~Contains(lower(data_type), w)

\* C11: when no name rule matches and the declared type is empty or belongs
\* to no family, the description is the cleaned name alone, and the call
\* returns.
C11_CleanNameAlone ==
    (op = "column" /\ NoNameRule /\ (data_type = <<>> \/ UnmappedType)) =>
        /\ pc \in {"start", "done"}
        /\ pc = "done" => description = _clean_column_name(column_name)

\* C11 witness: 'notes' of the unmapped type VARIANT is described as 'Notes'.
C11_Witness ==
    /\ ColumnDone
    /\ NoNameRule
    /\ data_type = <<"V", "A", "R", "I", "A", "N", "T">> /\ UnmappedType
    /\ description = <<"N", "o", "t", "e", "s">>

----------------------------------------------------------------------------
(* Properties of _clean_column_name                                        *)

RECURSIVE Split(_, _)
\* the pieces of s between the occurrences of the character c
Split(s, c) ==
    LET k == IndexOf(s, c, 1)
    IN IF k > Len(s) THEN <<s>>
       ELSE <<SubSeq(s, 1, k - 1)>> \o Split(SubSeq(s, k + 1, Len(s)), c)

\* the expansion of a word that is an abbreviation, the word itself otherwise
ExpansionOf(word) ==
    CASE word = <<"a", "d", "t">> -> <<"a", "u", "d", "i", "t">>
      [] word = <<"a", "n", "b">> -> <<"a", "c", "c", "o", "u", "n", "t", " ", "n", "u", "m", "b", "e", "r">>
      [] word = <<"s", "k">> -> <<"s", "u", "r", "r", "o", "g", "a", "t", "e", " ", "k", "e", "y">>
      [] word = <<"p", "k">> -> <<"p", "r", "i", "m", "a", "r", "y", " ", "k", "e", "y">>
      [] word = <<"f", "k">> -> <<"f", "o", "r", "e", "i", "g", "n", " ", "k", "e", "y">>
      [] word = <<"i", "d">> -> <<"i", "d", "e", "n", "t", "i", "f", "i", "e", "r">>
      [] word = <<"s", "c", "d">> -> <<"s", "l", "o", "w", "l", "y", " ", "c", "h", "a", "n", "g", "i", "n", "g", " ", "d", "i", "m", "e", "n", "s", "i", "o", "n">>
      [] word = <<"d", "o", "b">> -> <<"d", "a", "t", "e", " ", "o", "f", " ", "b", "i", "r", "t", "h">>
      [] word = <<"s", "s", "n">> -> <<"s", "o", "c", "i", "a", "l", " ", "s", "e", "c", "u", "r", "i", "t", "y", " ", "n", "u", "m", "b", "e", "r">>
      [] word = <<"n", "u", "m">> -> <<"n", "u", "m", "b", "e", "r">>
      [] word = <<"a", "m", "t">> -> <<"a", "m", "o", "u", "n", "t">>
      [] word = <<"q", "t", "y">> -> <<"q", "u", "a", "n", "t", "i", "t", "y">>
      [] word = <<"a", "d", "d", "r">> -> <<"a", "d", "d", "r", "e", "s", "s">>
      [] word = <<"t", "e", "l">> -> <<"t", "e", "l", "e", "p", "h", "o", "n", "e">>
      [] OTHER -> word

\* every underscore-delimited word of the lower-cased name replaced at once
\* by its expansion, the words joined by spaces
ExpandedAtOnce(name) ==
    LET words == Split(lower(name), "_")
    IN Join(<<" ">>, [i \in 1..Len(words) |-> ExpansionOf(words[i])])

\* C12: the cleaned name is what replacing every underscore-delimited word
\* by its expansion at once gives (nothing an expansion produced is
\* expanded again, nothing inside a longer word is expanded), with only the
\* first character upper-cased.
C12_NoCascading ==
    (op = "clean" /\ pc = "done") =>
        LET expanded == ExpandedAtOnce(column_name)
        IN /\ Len(cleaned) = Len(expanded)
           /\ \A i \in 1..Len(expanded) :
                  cleaned[i] = IF i = 1 THEN UpperChar(expanded[i]) ELSE expanded[i]

\* C12 witness: 'paid_id' keeps 'paid' and expands 'id'.
C12_Witness ==
    /\ op = "clean" /\ pc = "done"
    /\ column_name = <<"p", "a", "i", "d", "_", "i", "d">>
    /\ cleaned = <<"P", "a", "i", "d", " ", "i", "d", "e", "n", "t", "i", "f", "i", "e", "r">>

----------------------------------------------------------------------------
(* Properties of the column scan of generate_table_description             *)

\* the name carries a pipeline-metadata prefix
HasPipelinePrefix(name) ==
    StartsWith(lower(name), <<"d", "b", "t", "_">>) \/ StartsWith(lower(name), <<"a", "d", "t", "_">>)

\* the columns without those that carry a pipeline-metadata prefix
BusinessColumns(cols) == SelectSeq(cols, LAMBDA name : ~HasPipelinePrefix(name))

\* C13: a column with a dbt_ or adt_ prefix is excluded entirely from the
\* scan: the buckets that fired and the fragments that were collected are
\* those of the columns without such a prefix.
C13_PrefixedExcluded ==
    TableDone =>
        /\ details_list = Details(BusinessColumns(columns))
        /\ important_list = ImportantColumns(BusinessColumns(columns))

\* the phrase of each bucket
PhraseOf(bucket) ==
    CASE bucket = "id" -> <<"i", "d", "e", "n", "t", "i", "f", "i", "e", "r", "s">>
      [] bucket = "name" -> <<"n", "a", "m", "e", "s">>
      [] bucket = "date" -> <<"d", "a", "t", "e", "s">>
      [] bucket = "amount" -> <<"a", "m", "o", "u", "n", "t", "s">>
      [] bucket = "status" -> <<"s", "t", "a", "t", "u", "s", " ", "i", "n", "f", "o", "r", "m", "a", "t", "i", "o", "n">>

\* the buckets whose pattern the lower-cased name matches, in the order of
\* the scan's tests
MatchedBuckets(col_name) ==
    (IF IsKeyColumn(col_name) /\ NoPipelinePrefix(col_name) THEN <<"id">> ELSE <<>>)
    \o (IF Contains(col_name, <<"n", "a", "m", "e">>) THEN <<"name">> ELSE <<>>)
    \o (IF Contains(col_name, <<"d", "a", "t", "e">>) /\ NoPipelinePrefix(col_name)
        THEN <<"date">> ELSE <<>>)
    \o (IF Contains(col_name, <<"a", "m", "o", "u", "n", "t">>) \/ Contains(col_name, <<"_", "a", "m", "t">>)
        THEN <<"amount">> ELSE <<>>)
    \o (IF Contains(col_name, <<"s", "t", "a", "t", "u", "s">>) \/ Contains(col_name, <<"s", "t", "a", "t", "e">>)
        THEN <<"status">> ELSE <<>>)

\* the buckets that fired, read off the list details
FiredBuckets ==
    {b \in {"id", "name", "date", "amount", "status"} :
        \E i \in 1..Len(details_list) : details_list[i] = PhraseOf(b)}

\* C18 as stated: a column sets every bucket whose pattern it matches, so
\* the fired buckets are the union over the columns of all the patterns
\* each column matches.
C18_EveryMatchedBucket ==
    TableDone =>
        FiredBuckets =
            UNION {{MatchedBuckets(lower(columns[i]))[k] :
                        k \in 1..Len(MatchedBuckets(lower(columns[i])))} :
                   i \in 1..Len(columns)}

\* C18 amended: a column sets at most one bucket, the first whose pattern it
\* matches in the order identifier, name, date, amount, status (the
\* identifier and date patterns requiring a name without dbt_ and adt_), so
\* the fired buckets are the union over the columns of that first bucket.
C18_FirstMatchedBucket ==
    TableDone =>
        FiredBuckets =
            {MatchedBuckets(lower(columns[i]))[1] :
                i \in {j \in 1..Len(columns) : MatchedBuckets(lower(columns[j])) # <<>>}}

\* C18 witness: status_id matches the identifier and the status pattern and
\* fired the identifier bucket alone.
C18_Witness ==
    /\ TableDone
    /\ columns = <<<<"s", "t", "a", "t", "u", "s", "_", "i", "d">>>>
    /\ MatchedBuckets(lower(columns[1])) = <<"id", "status">>
    /\ details_list = <<<<"i", "d", "e", "n", "t", "i", "f", "i", "e", "r", "s">>>>

\* the token through which the lower-cased name entered its branch
MatchedToken(col_name, branch) ==
    CASE branch = "id" ->
            IF \/ EndsWith(col_name, <<"i", "d">>) \/ StartsWith(col_name, <<"i", "d">>)
            THEN <<"i", "d">> ELSE <<"k", "e", "y">>
      [] branch = "name" -> <<"n", "a", "m", "e">>
      [] branch = "date" -> <<"d", "a", "t", "e">>
      [] branch = "amount" ->
            IF Contains(col_name, <<"a", "m", "o", "u", "n", "t">>) THEN <<"a", "m", "o", "u", "n", "t">> ELSE <<"a", "m", "t">>
      [] OTHER -> <<>>

\* C19: every collected fragment is longer than 2 characters and is the
\* column name without the token that made the column match: no fragment
\* still contains its matched token, 'key' included.
C19_TokenRemoved ==
    TableDone =>
        /\ \A i \in 1..Len(important_list) : Len(important_list[i]) > 2
        /\ \A i \in 1..Len(columns) :
               LET col_name == lower(columns[i])
                   branch == ColumnBranch(col_name)
                   fragment == Fragments(col_name)
               IN (branch \in {"id", "name", "date", "amount"} /\ fragment # <<>>)
                      => ~Contains(fragment[1], MatchedToken(col_name, branch))

----------------------------------------------------------------------------
(* Properties of the identifier and flag rules                             *)

\* the description is one of the identifier rule's sentences
TakesIdentifierRule ==
    \/ StartsWith(description, <<"P", "r", "i", "m", "a", "r", "y", " ", "i", "d", "e", "n", "t", "i", "f", "i", "e", "r", " ", "f", "o", "r", " ">>)
    \/ StartsWith(description, <<"F", "o", "r", "e", "i", "g", "n", " ", "k", "e", "y", " ", "r", "e", "f", "e", "r", "e", "n", "c", "e", " ", "t", "o", " ">>)
    \/ StartsWith(description, <<"I", "d", "e", "n", "t", "i", "f", "i", "e", "r", " ", "f", "o", "r", " ">>)

\* 'id' is one of the underscore-delimited segments of the name
HasIdSegment(name) ==
    LET segments == Split(name, "_")
    IN \E i \in 1..Len(segments) : segments[i] = <<"i", "d">>

\* C15: the identifier rule fires exactly when 'id' is a whole
\* underscore-delimited segment of the lower-cased name; a name in which
\* 'id' is only part of a longer word (is_paid, valid) does not take it.
C15_IdSegmentOnly ==
    ColumnDone => (TakesIdentifierRule <=> HasIdSegment(lower(column_name)))

\* the description is the flag rule's sentence
TakesFlagRule == StartsWith(description, <<"F", "l", "a", "g", " ", "i", "n", "d", "i", "c", "a", "t", "i", "n", "g", " ">>)

\* C16: the flag rule fires only for a lower-cased name that starts with
\* 'is_' or ends with _flag or _flg; when it fires the description is 'Flag
\* indicating {cleaned name}', followed by ' (possible values: ...)' with
\* the frequent values in ranked order exactly when the profile has them.
C16_FlagPrefixOrSuffix ==
    (ColumnDone /\ TakesFlagRule) =>
        /\ \/ StartsWith(lower(column_name), <<"i", "s", "_">>)
           \/ EndsWith(lower(column_name), <<"_", "f", "l", "a", "g">>)
           \/ EndsWith(lower(column_name), <<"_", "f", "l", "g">>)
        /\ description =
               <<"F", "l", "a", "g", " ", "i", "n", "d", "i", "c", "a", "t", "i", "n", "g", " ">> \o cleaned
                   \o (IF analysis.common_values # <<>>
                       THEN <<" ", "(", "p", "o", "s", "s", "i", "b", "l", "e", " ", "v", "a", "l", "u", "e", "s", ":", " ">>
                                \o Join(<<",", " ">>,
                                        [i \in 1..Len(analysis.common_values) |->
                                            analysis.common_values[i][1]])
                                \o <<")">>
                       ELSE <<>>)

----------------------------------------------------------------------------
(* Properties of the dominant type                                         *)

\* the type names of the items of the sample
TypesPresent == {sample_data[i].t : i \in Present}

\* the position at which a type name first appears
FirstOfType(t) ==
    CHOOSE i \in Present :
        /\ sample_data[i].t = t
        /\ \A j \in Present : j < i => sample_data[j].t # t

\* C17: the dominant type is a type of the highest item count in the
\* sample, and among the types that tie for the highest count the one whose
\* first item comes earliest; with a single type it is that type.
C17_DominantType ==
    (AnalyzeDone /\ Present # {}) =>
        /\ analysis.type \in TypesPresent
        /\ \A t \in TypesPresent :
               \/ TypeTally(t) < TypeTally(analysis.type)
               \/ /\ TypeTally(t) = TypeTally(analysis.type)
                  /\ FirstOfType(analysis.type) <= FirstOfType(t)

\* C17 witness: after a None item an int and a str tie for the highest
\* count, and the dominant type is int, the type seen first.
C17_Witness ==
    /\ AnalyzeDone
    /\ Len(sample_data) = 3
    /\ Present = {2, 3}
    /\ sample_data[2].t = "int"
    /\ sample_data[3].t = "str"
    /\ analysis.type = "int"

----------------------------------------------------------------------------
(* Properties of the sampling query and of main                            *)

\* the sampling query failed or returned no row
NoSample == query = "error" \/ rows = <<>>

\* the description carries one of the optional suffixes
HasOptionalSuffix ==
    \/ Contains(description, <<" ", "(", "r", "a", "n", "g", "e", "s", " ", "f", "r", "o", "m", " ">>)
    \/ Contains(description, <<" ", "(", "p", "o", "s", "s", "i", "b", "l", "e", " ", "v", "a", "l", "u", "e", "s", ":", " ">>)
    \/ Contains(description, <<" ", "(", "e", ".", "g", ".", ",", " ">>)

\* C14: when the sampling query fails or returns no row, get_sample_data
\* returns an empty sample and does not raise, and the column still gets a
\* description, the one its name and declared type give with an empty
\* profile, without range, possible values or examples.
C14_EmptySampleOnFailure ==
    (op = "fetch" /\ NoSample) =>
        /\ pc \in {"start", "done"}
        /\ pc = "done" =>
               /\ sample_data = <<>>
               /\ description # <<>>
               /\ description = DescribeColumn(column_name, data_type, EmptyAnalysis)
               /\ ~HasOptionalSuffix

\* C14 witness: the query failed for total_amount (NUMBER(38,2)) and the
\* description has no range.
C14_Witness ==
    /\ op = "fetch" /\ pc = "done"
    /\ query = "error"
    /\ column_name = <<"t", "o", "t", "a", "l", "_", "a", "m", "o", "u", "n", "t">>
    /\ data_type = <<"N", "U", "M", "B", "E", "R", "(", "3", "8", ",", "2", ")">>
    /\ description = <<"M", "o", "n", "e", "t", "a", "r", "y", " ", "a", "m", "o", "u", "n", "t", " ", "f", "o", "r", " ", "T", "o", "t", "a", "l", " ", "a", "m", "o", "u", "n", "t">>

\* connect() has returned in this run of main
ConnectSucceeded ==
    /\ op = "main"
    /\ pc \notin {"start", "connect"}
    /\ error \notin {"config", "connect"}

\* main has returned
Returned == op = "main" /\ pc = "done"

\* C20: once connect() has succeeded, main calls connector.close() exactly
\* once before it returns, on every path, and the connector then holds no
\* connection; when the configuration or connect() fails, main returns 1
\* and no output file is written.
C20_ClosedOnceBeforeReturn ==
    /\ [](ConnectSucceeded => close_calls <= 1)
    /\ []((Returned /\ ConnectSucceeded) => (close_calls = 1 /\ conn = None))
    /\ []((Returned /\ ~ConnectSucceeded) =>
              (exit_code = <<1>> /\ ~written /\ close_calls = 0))
    /\ (ConnectSucceeded ~> (Returned /\ close_calls = 1 /\ conn = None))
    /\ ((op = "main" /\ error \in {"config", "connect"}) ~>
            (Returned /\ exit_code = <<1>> /\ ~written))

\* C20 witness: the second of two tables raised while its columns were
\* fetched; close was called once and main returned 1.
C20_Witness ==
    /\ Returned
    /\ tables = 2
    /\ processed = 1
    /\ error = "get_columns"
    /\ close_calls = 1
    /\ conn = None
    /\ exit_code = <<1>>

----------------------------------------------------------------------------
(* Properties of the description sources                                   *)

DescribeDone == op = "describe" /\ pc = "done"

\* the query gave a non-empty string
NonEmptyText(result) == result.kind = "value" /\ result.value # <<>>

\* the table description is the AI result if that is a non-empty string,
\* else the existing comment if that is one, else a generated description
TableSourceKept ==
    IF NonEmptyText(ai_table) THEN table_model.description = ai_table.value
    ELSE IF NonEmptyText(table_comment)
    THEN table_model.description = table_comment.value
    ELSE table_model.description
             \in generate_table_description(table_name, ColumnNamesOf(table_columns))

\* the existing comment of the named column, <<>> if it has none
CommentOf(name) ==
    IF /\ column_comments.kind = "rows"
       /\ \E i \in 1..Len(column_comments.items) :
              column_comments.items[i][1] = name /\ column_comments.items[i][2] # <<>>
    THEN column_comments.items[
             CHOOSE i \in 1..Len(column_comments.items) :
                 column_comments.items[i][1] = name /\ column_comments.items[i][2] # <<>>][2]
    ELSE <<>>

\* how often get_sample_data was called for the named column
SampledTimes(name) == Cardinality({i \in 1..Len(sampled) : sampled[i] = name})

\* the model lists every column of the table once, in the table's order
OneDescriptionEach ==
    /\ Len(table_model.columns) = Len(table_columns)
    /\ \A i \in 1..Len(table_columns) :
           /\ table_model.columns[i].name = table_columns[i].name
           /\ table_model.columns[i].description # <<>>

\* the column descriptions, given whether the AI result is the one returned:
\* if it is, they are its entries and nothing is sampled; if not, a column
\* with a comment has it verbatim and is not sampled, and a column without
\* has the description generated from its sample, fetched once
ColumnSourcesKept(aiReturned) ==
    \A i \in 1..Len(table_columns) :
        LET name == table_columns[i].name
            text == table_model.columns[i].description
        IN IF aiReturned
           THEN /\ SampledTimes(name) = 0
                /\ \A k \in 1..Len(ai_columns.items) :
                       ai_columns.items[k][1] = name => text = ai_columns.items[k][2]
           ELSE IF CommentOf(name) # <<>>
           THEN text = CommentOf(name) /\ SampledTimes(name) = 0
           ELSE /\ SampledTimes(name) = 1
                /\ \E ents \in NerOutcomes :
                       text = generate_column_description(
                                  name, table_columns[i].type,
                                  get_sample_data(query, rows).value, ents)

\* C21 as stated: the table description comes from the first of AI result,
\* existing comment, generated description that is non-empty; a dict AI
\* result for the columns is returned as is; otherwise commented columns
\* keep their comment unsampled and the others get a sampled, generated
\* description; every column ends with exactly one description.
C21_AnyDictReturned ==
    DescribeDone =>
        /\ TableSourceKept
        /\ OneDescriptionEach
        /\ ColumnSourcesKept(ai_columns.kind = "dict")

\* C21 amended: as stated, but only a non-empty dict AI result for the
\* columns is returned as is; an empty dict counts as no AI result, and the
\* columns then take their comments or sampled, generated descriptions.
C21_SourcePrecedence ==
    DescribeDone =>
        /\ TableSourceKept
        /\ OneDescriptionEach
        /\ ColumnSourcesKept(ai_columns.kind = "dict" /\ ai_columns.items # <<>>)

\* C21 witness: the table has an AI result and a comment and keeps the AI
\* result; without a dict AI result for the columns, customer_id keeps its
\* comment unsampled and notes is sampled and described.
C21_Witness ==
    /\ DescribeDone
    /\ NonEmptyText(ai_table) /\ NonEmptyText(table_comment)
    /\ table_model.description = <<"A", "I", " ", "t", "a", "b", "l", "e", " ", "s", "u", "m", "m", "a", "r", "y">>
    /\ ai_columns = TextResult(<<"{", "}">>)
    /\ ColumnNamesOf(table_columns) = <<<<"c", "u", "s", "t", "o", "m", "e", "r", "_", "i", "d">>, <<"n", "o", "t", "e", "s">>>>
    /\ CommentOf(<<"c", "u", "s", "t", "o", "m", "e", "r", "_", "i", "d">>) # <<>> /\ CommentOf(<<"n", "o", "t", "e", "s">>) = <<>>
    /\ table_model.columns[1].description = <<"C", "o", "m", "m", "e", "n", "t", " ", "o", "n", " ", "c", "u", "s", "t", "o", "m", "e", "r", "_", "i", "d">>
    /\ sampled = <<<<"n", "o", "t", "e", "s">>>>
    /\ query = "error"
    /\ table_model.columns[2].description = <<"T", "e", "x", "t", " ", "f", "i", "e", "l", "d", " ", "c", "o", "n", "t", "a", "i", "n", "i", "n", "g", " ", "N", "o", "t", "e", "s">>

====
